---- MODULE Spec2Model ----
(***************************************************************************)
(* Verification model of the Trading-Bot-Data scrapers.                    *)
(*                                                                         *)
(*   SpecScroll  : Magiceden.py  scroll_to_load_more                       *)
(*   SpecScrape  : Magiceden.py  scrape_all_ordinals (one run)             *)
(*   SpecFull    : magiceden_full_scraper.py  scrape_with_precision        *)
(*   SpecExtract : the field extractors, applied to bounded inputs         *)
(*                                                                         *)
(* The browser is the environment: what it reports (page heights, DOM      *)
(* elements, attribute values, modal contents, timeouts, WebDriver         *)
(* exceptions) is chosen nondeterministically from small sets.             *)
(***************************************************************************)
EXTENDS Integers, Sequences, FiniteSets, TLC

VARIABLES
    \* ---- scroll_to_load_more (Magiceden.py:49-77)
    scroll_pc, last_height, scroll_attempts, scroll_iters, scroll_hist,
    \* ---- scrape_all_ordinals (Magiceden.py:528-636)
    pc, max_items, all_data, scraped_inscriptions, scroll_batch,
    num_elements, idx, processed_in_batch, result, escaped, last,
    \* ---- scrape_with_precision (magiceden_full_scraper.py:285-363)
    f_pc, max_nfts, nft_data, f_idx, enhanced_data, f_result, f_failed,
    \* ---- extractors applied to one input
    x_fn, x_pc, x_element, x_seen, x_outcome, x_modal, x_lines, x_page, x_ret,
    x_responses, x_args, x_trace, x_open,
    \* ---- the batch loop of scrape_all_ordinals, records counted
    \*      (Magiceden.py:548-628)
    b_pc, b_max_items, b_len, b_scroll_batch, b_left, b_processed_in_batch,
    b_start_len, b_empty,
    \* ---- extract_ordinal_data (simple.py:9-306)
    s_pc, s_i, cards_processed, ordinal_data, processed_numbers, s_result,
    s_iters, s_last,
    \* ---- main (inscriptionDetail.py:98-125)
    m_pc, m_len, m_idx, results, m_fetched, m_saved, m_last,
    \* ---- the main block of inscription_scraping.py (lines 338-369)
    l_pc, l_cards, l_nft_data, l_written,
    \* ---- extract_multiple_ordinals (model.py:64-149); u_index is current_index
    u_pc, end_index, u_index, u_all_data, u_file, u_result, u_last

scrollVars  == <<scroll_pc, last_height, scroll_attempts, scroll_iters, scroll_hist>>
scrapeVars  == <<pc, max_items, all_data, scraped_inscriptions, scroll_batch,
                 num_elements, idx, processed_in_batch, result, escaped, last>>
fullVars    == <<f_pc, max_nfts, nft_data, f_idx, enhanced_data, f_result, f_failed>>
extractVars == <<x_fn, x_pc, x_element, x_seen, x_outcome, x_modal, x_lines, x_page,
                 x_ret, x_responses, x_args, x_trace, x_open>>
batchVars   == <<b_pc, b_max_items, b_len, b_scroll_batch, b_left,
                 b_processed_in_batch, b_start_len, b_empty>>
simpleVars  == <<s_pc, s_i, cards_processed, ordinal_data, processed_numbers,
                 s_result, s_iters, s_last>>
mainVars    == <<m_pc, m_len, m_idx, results, m_fetched, m_saved, m_last>>
listingVars == <<l_pc, l_cards, l_nft_data, l_written>>
multiVars   == <<u_pc, end_index, u_index, u_all_data, u_file, u_result,
                 u_last>>
laterVars   == <<batchVars, simpleVars, mainVars, listingVars, multiVars>>
vars        == <<scrollVars, scrapeVars, fullVars, extractVars, laterVars>>

(***************************************************************************)
(* Bounds of the model                                                     *)
(***************************************************************************)
MaxHeight      == 3    \* page heights the browser reports: 1..MaxHeight
MaxScrollIters == 17   \* cap on modelled iterations of the scroll loop
NumIds         == 2    \* distinct inscription ids on the page
MaxItemsBound  == 2    \* max_items is drawn from 1..MaxItemsBound
MaxElements    == 2    \* elements returned by one get_all_ordinal_elements
MaxNfts        == 3    \* cards returned by the listing extraction
MaxLines       == 3    \* text lines of one card
MaxRows        == 3    \* rows of the input CSV of inscriptionDetail.py
MaxBatchItems  == 9    \* max_items of the counted batch loop: 1..MaxBatchItems
NumNumbers     == 1    \* distinct inscription numbers on the page of simple.py
MaxEnd         == 2    \* end_index of extract_multiple_ordinals: 0..MaxEnd

(***************************************************************************)
(* Python values                                                           *)
(***************************************************************************)
\* Python's None. No extracted text of the model is this string.
None == "None"

\* No regex match / no attribute / no id.
NoMatch == "NoMatch"

\* A WebDriver call that raises (stale element, lost session, ...).
Raises == "Raises"

\* dict merge {**a, **b}: keys of both, b wins on a common key.
Merge(a, b) ==
    [k \in (DOMAIN a) \cup (DOMAIN b) |-> IF k \in DOMAIN b THEN b[k] ELSE a[k]]

\* The empty dict {}.
EmptyDict == [k \in {} |-> None]

\* A dict with the single entry k: v.
Entry(k, v) == [j \in {k} |-> v]

Ids == 1 .. NumIds

(***************************************************************************)
(* Magiceden.py  scroll_to_load_more                                       *)
(***************************************************************************)
max_scroll_attempts == 15

\* "Stop after 3 failed attempts"
failed_attempts_limit == 3

Heights == 1 .. MaxHeight

ScrollIdle ==
    /\ scroll_pc = "idle"
    /\ last_height = 0
    /\ scroll_attempts = 0
    /\ scroll_iters = 0
    /\ scroll_hist = <<>>

\* last_height = execute_script("return document.body.scrollHeight");
\* scroll_attempts = 0
ScrollInit ==
    /\ scroll_pc = "loop"
    /\ last_height \in Heights
    /\ scroll_attempts = 0
    /\ scroll_iters = 0
    /\ scroll_hist = <<>>

\* The loop keeping its count of failed attempts when the height changes.
ScrollBodyNoReset(new_height, lh, attempts) ==
    IF new_height = lh
    THEN IF attempts + 1 >= failed_attempts_limit
         THEN <<"done", lh, attempts + 1>>
         ELSE <<"loop", lh, attempts + 1>>
    ELSE <<"loop", new_height, attempts>>

\* The state of the loop after one iteration in which the browser reported
\* new_height: <<scroll_pc, last_height, scroll_attempts>>.
ScrollBody(new_height, lh, attempts) ==
    IF new_height = lh
    THEN IF attempts + 1 >= failed_attempts_limit
         THEN <<"done", lh, attempts + 1>>
         ELSE <<"loop", lh, attempts + 1>>
    ELSE <<"loop", new_height, 0>>

\* The history of the scrolls, newest last: for each of the last
\* failed_attempts_limit scrolls, whether it left the height read before it
\* (line 54 or 66) unchanged.
HistAfter(hist, unchanged) ==
    LET h == Append(hist, unchanged) IN
    IF Len(h) > failed_attempts_limit THEN Tail(h) ELSE h

\* One evaluation of the while condition and, when it holds, one iteration.
ScrollStep ==
    /\ scroll_pc = "loop"
    /\ scroll_iters < MaxScrollIters
    /\ IF scroll_attempts < max_scroll_attempts
       THEN \E new_height \in Heights :
              LET s == ScrollBody(new_height, last_height, scroll_attempts) IN
              /\ scroll_pc' = s[1]
              /\ last_height' = s[2]
              /\ scroll_attempts' = s[3]
              /\ scroll_iters' = scroll_iters + 1
              /\ scroll_hist' = HistAfter(scroll_hist, new_height = last_height)
       ELSE /\ scroll_pc' = "done"
            /\ UNCHANGED <<last_height, scroll_attempts, scroll_iters, scroll_hist>>
    /\ UNCHANGED <<scrapeVars, fullVars, extractVars, laterVars>>

\* execute_script raises inside the loop: the exception leaves the function.
ScrollRaises ==
    /\ scroll_pc = "loop"
    /\ scroll_pc' = "raised"
    /\ UNCHANGED <<last_height, scroll_attempts, scroll_iters, scroll_hist>>
    /\ UNCHANGED <<scrapeVars, fullVars, extractVars, laterVars>>

NextScroll == ScrollStep \/ ScrollRaises

(***************************************************************************)
(* Magiceden.py  extract_basic_info                                        *)
(*                                                                         *)
(* A DOM element is described by what the browser answers for it:          *)
(*   href   the href attribute. st "ok" carries a URL, described by its    *)
(*          path and by the id that [a-f0-9]+i\d+ matches after            *)
(*          /ordinals/item-details/ (NoMatch when the regex fails)         *)
(*   data_id, data_inscription_id   the two data attributes                *)
(*   img    the src of the first <img>: st "raises" when there is no       *)
(*          <img>, otherwise what each of the three src patterns matches   *)
(*   names  the texts of the name candidates, in DOM order                 *)
(*   price  the number the price pattern captures in element.text          *)
(***************************************************************************)
IdName(i) == "id" \o ToString(i)

InscriptionIds == {IdName(i) : i \in Ids}

Attr(st, v) == [st |-> st, v |-> v]

Url(path, id) == [st |-> "ok", path |-> path, id |-> id]

NoUrl(st) == [st |-> st, path |-> "", id |-> NoMatch]

Src(m1, m2, m3) == [st |-> "ok", content |-> m1, renderer |-> m2, content2F |-> m3]

NoSrc(st) == [st |-> st, content |-> NoMatch, renderer |-> NoMatch, content2F |-> NoMatch]

\* The number 0 of a decoded JSON body.
Zero == "int:0"

\* Python truthiness of an optional string or number.
Truthy(v) == v # NoMatch /\ v # None /\ v # "" /\ v # Zero

\* Strategy 1 (lines 133-140): the id in the href, NoMatch when there is none.
HrefId(el) ==
    IF el.href.st = "ok" /\ el.href.path = "item-details"
    THEN el.href.id
    ELSE NoMatch

\* Strategy 2 (lines 143-149): data-id or data-inscription-id; one raising
\* get_attribute ends the strategy without an id.
DataId(el) ==
    IF el.data_id.st = "raises" THEN NoMatch
    ELSE IF el.data_id.st = "ok" /\ Truthy(el.data_id.v) THEN el.data_id.v
    ELSE IF el.data_inscription_id.st = "ok" /\ Truthy(el.data_inscription_id.v)
         THEN el.data_inscription_id.v
    ELSE NoMatch

\* Strategy 3 (lines 152-169): the first of the three src patterns that matches.
ImgId(el) ==
    IF el.img.st # "ok" THEN NoMatch
    ELSE IF el.img.content # NoMatch THEN el.img.content
    ELSE IF el.img.renderer # NoMatch THEN el.img.renderer
    ELSE el.img.content2F

\* Strategies in another order: data attribute, then href, then image src.
ResolveIdDataFirst(el) ==
    IF Truthy(DataId(el)) THEN DataId(el)
    ELSE IF Truthy(HrefId(el)) THEN HrefId(el)
    ELSE ImgId(el)

\* inscription_id after lines 129-169.
ResolveId(el) ==
    IF Truthy(HrefId(el)) THEN HrefId(el)
    ELSE IF Truthy(DataId(el)) THEN DataId(el)
    ELSE ImgId(el)

TooLong == "<text of 100 or more characters>"

RECURSIVE FirstName(_)
\* Lines 181-192: the first candidate text that is non-empty, shorter than
\* 100 characters and not 'Sub 10k'.
FirstName(texts) ==
    IF texts = <<>> THEN NoMatch
    ELSE IF Head(texts) \notin {"", TooLong, "Sub 10k", Raises} THEN Head(texts)
    ELSE FirstName(Tail(texts))

NameInfo(el) ==
    IF FirstName(el.names) = NoMatch THEN EmptyDict
    ELSE Entry("name", FirstName(el.names))

\* Lines 194-201: float(group(1)) of the price pattern.
PriceInfo(el) ==
    IF el.price \in {NoMatch, Raises} THEN EmptyDict
    ELSE Entry("price_btc", el.price)

\* float(text) of a captured number, as Python prints it.
Float(text) == IF text = "0.0100" THEN "0.01" ELSE text

RECURSIVE TextPrice(_, _)
\* Lines 195-196: group(1) of the first match of the price pattern in
\* element.text, the text being the lines from line i on. The pattern
\* matches inside a line that has a number before 'BTC', and across the
\* line break when a line that is a number is followed by the line 'BTC'.
TextPrice(lines, i) ==
    IF i > Len(lines) THEN NoMatch
    ELSE IF lines[i].btc # NoMatch THEN lines[i].btc
    ELSE IF lines[i].dec /\ i + 1 <= Len(lines) /\ lines[i + 1].text = "BTC"
         THEN lines[i].text
    ELSE TextPrice(lines, i + 1)

\* Lines 195-198: the number stored as price_btc for a card with these
\* text lines, NoMatch when the pattern does not match.
BasicPrice(lines) ==
    IF TextPrice(lines, 1) = NoMatch THEN NoMatch ELSE Float(TextPrice(lines, 1))

ReturnNone == [none |-> TRUE, val |-> EmptyDict]

Return(d) == [none |-> FALSE, val |-> d]

\* extract_basic_info keeping an element without id under the id 'unknown'.
extract_basic_info_keeps_unknown(el, seen) ==
    LET id == IF Truthy(ResolveId(el)) THEN ResolveId(el) ELSE "unknown" IN
    IF id \in seen THEN ReturnNone
    ELSE Return(Merge(Merge(Entry("inscription_id", id), NameInfo(el)), PriceInfo(el)))

\* extract_basic_info(element) with self.scraped_inscriptions = seen.
extract_basic_info(el, seen) ==
    IF ~Truthy(ResolveId(el)) THEN ReturnNone
    ELSE IF ResolveId(el) \in seen THEN ReturnNone
    ELSE Return(Merge(Merge(Entry("inscription_id", ResolveId(el)), NameInfo(el)),
                      PriceInfo(el)))

(***************************************************************************)
(* Magiceden.py  extract_detailed_info and its helpers                     *)
(*                                                                         *)
(* A modal is described by what the browser answers while it is open:      *)
(*   imgs       per image selector, in order: st "raises" when the wait    *)
(*              times out, else the src (url) and the substrings of        *)
(*              interest it contains (has)                                 *)
(*   text_st    "raises" when the lookup of the modal element fails        *)
(*   ct, owner, location, timestamp, genesis_tx, rarity                    *)
(*              per pattern of the field, in order: the stripped group(1)  *)
(*              of re.search on the modal text, NoMatch when it fails      *)
(*   value      group(1) of the Value pattern                              *)
(***************************************************************************)
ImgResult(st, url, has) == [st |-> st, url |-> url, has |-> has]

\* Lines 279-296: content type by the first substring found in src.lower().
ContentTypeOfSrc(has) ==
    IF "webp" \in has THEN "image/webp"
    ELSE IF "png" \in has THEN "image/png"
    ELSE IF "jpg" \in has \/ "jpeg" \in has THEN "image/jpeg"
    ELSE IF "gif" \in has THEN "image/gif"
    ELSE IF "svg" \in has THEN "image/svg+xml"
    ELSE IF "text" \in has \/ "plain" \in has THEN "text/plain"
    ELSE IF "json" \in has THEN "application/json"
    ELSE IF "html" \in has THEN "text/html"
    ELSE "unknown"

RECURSIVE ImageInfoOf(_)
\* Lines 269-299: the first selector whose image has a src containing
\* 'content' or 'renderer'.
ImageInfoOf(imgs) ==
    IF imgs = <<>> THEN EmptyDict
    ELSE LET r == Head(imgs) IN
         IF r.st = "ok" /\ Truthy(r.url) /\ ("content" \in r.has \/ "renderer" \in r.has)
         THEN [image_url |-> r.url, content_type |-> ContentTypeOfSrc(r.has)]
         ELSE ImageInfoOf(Tail(imgs))

\* extract_image_info()
extract_image_info(m) == ImageInfoOf(m.imgs)

RECURSIVE ContentInfoOf(_)
\* Lines 323-329: info is the helper's own, still empty dict, so the guard
\* "not info.get('content_type')" holds at every pattern.
ContentInfoOf(ms) ==
    IF ms = <<>> THEN EmptyDict
    ELSE IF Head(ms) # NoMatch /\ Head(ms) # "" /\ Head(ms) # "unknown"
         THEN Entry("content_type", Head(ms))
         ELSE ContentInfoOf(Tail(ms))

\* extract_content_info()
extract_content_info(m) ==
    IF m.text_st = "raises" THEN EmptyDict ELSE ContentInfoOf(m.ct)

\* An owner candidate: the text, its length, and what it contains.
OwnerCand(text, len, bc1, dots) == [text |-> text, len |-> len, bc1 |-> bc1, dots |-> dots]

\* The test accepting every candidate that is long or has the prefix.
OwnerAcceptedLengthOrPrefix(c) == c.len > 10 \/ c.bc1

\* Line 357.
OwnerAccepted(c) == c.len > 10 /\ (c.bc1 \/ c.dots \/ c.len > 20)

RECURSIVE OwnerOf(_)
OwnerOf(cs) ==
    IF cs = <<>> THEN EmptyDict
    ELSE IF Head(cs).text # NoMatch /\ OwnerAccepted(Head(cs))
         THEN Entry("owner", Head(cs).text)
         ELSE OwnerOf(Tail(cs))

RECURSIVE FirstTruthy(_)
\* The first pattern that matches with a non-empty stripped group.
FirstTruthy(ms) ==
    IF ms = <<>> THEN NoMatch
    ELSE IF Truthy(Head(ms)) THEN Head(ms)
    ELSE FirstTruthy(Tail(ms))

RECURSIVE FirstMatched(_)
\* The first pattern that matches at all.
FirstMatched(ms) ==
    IF ms = <<>> THEN NoMatch
    ELSE IF Head(ms) # NoMatch THEN Head(ms)
    ELSE FirstMatched(Tail(ms))

OptEntry(k, v) == IF v = NoMatch THEN EmptyDict ELSE Entry(k, v)

\* extract_owner_info()
extract_owner_info(m) ==
    IF m.text_st = "raises" THEN EmptyDict
    ELSE Merge(OwnerOf(m.owner), OptEntry("location", FirstTruthy(m.location)))

\* A captured number that float() rejects, such as '1.2.3'.
BadNumber == "1.2.3"

\* datetime.strptime(...).isoformat() for the texts one of the five formats
\* parses; any other text is stored as it is (line 421).
ParseTimestamp(t) ==
    IF t = "2023-02-01" THEN "2023-02-01T00:00:00"
    ELSE IF t = "02/01/2023" THEN "2023-02-01T00:00:00"
    ELSE t

\* extract_inscription_details()
extract_inscription_details(m) ==
    IF m.text_st = "raises" THEN EmptyDict
    ELSE Merge(Merge(IF m.value \in {NoMatch, BadNumber} THEN EmptyDict
                     ELSE Entry("value", m.value),
                     IF FirstMatched(m.timestamp) = NoMatch THEN EmptyDict
                     ELSE Entry("timestamp", ParseTimestamp(FirstMatched(m.timestamp)))),
               OptEntry("genesis_tx", FirstMatched(m.genesis_tx)))

\* The rarity keywords a lower-cased rarity text contains as substrings.
KeywordsIn(text) ==
    IF text = "uncommon" THEN {"uncommon", "common"}
    ELSE IF text \in {"common", "standard", "rare", "epic", "legendary", "mythic"}
         THEN {text}
    ELSE {}

\* MapRarity storing a text without keyword as it is.
MapRarityKeepsText(text) ==
    IF KeywordsIn(text) \cap {"common", "standard"} # {} THEN "common"
    ELSE IF "uncommon" \in KeywordsIn(text) THEN "uncommon"
    ELSE IF "rare" \in KeywordsIn(text) THEN "rare"
    ELSE IF "epic" \in KeywordsIn(text) THEN "epic"
    ELSE IF "legendary" \in KeywordsIn(text) THEN "legendary"
    ELSE IF "mythic" \in KeywordsIn(text) THEN "mythic"
    ELSE text

\* Lines 464-477.
MapRarity(text) ==
    IF KeywordsIn(text) \cap {"common", "standard"} # {} THEN "common"
    ELSE IF "uncommon" \in KeywordsIn(text) THEN "uncommon"
    ELSE IF "rare" \in KeywordsIn(text) THEN "rare"
    ELSE IF "epic" \in KeywordsIn(text) THEN "epic"
    ELSE IF "legendary" \in KeywordsIn(text) THEN "legendary"
    ELSE IF "mythic" \in KeywordsIn(text) THEN "mythic"
    ELSE "N/A"

\* extract_rarity_info()
extract_rarity_info(m) ==
    IF m.text_st = "raises" THEN Entry("Sat_Rarity", "N/A")
    ELSE IF FirstMatched(m.rarity) = NoMatch THEN Entry("Sat_Rarity", "N/A")
    ELSE Entry("Sat_Rarity", MapRarity(FirstMatched(m.rarity)))

\* How close_modal ends (lines 489-526): a close button was clicked, no
\* button was found and Escape was sent, or sending Escape raised and the
\* handler of lines 524-525 swallowed the exception.
CloseOutcomes == {"button", "escape", "fails"}

\* extract_detailed_info not closing the modal when the wait timed out.
CloseCallsNotOnTimeout(outcome) ==
    IF outcome = "opened" THEN <<"close_modal">>
    ELSE IF outcome = "timeout" THEN <<>>
    ELSE <<"close_modal">>

\* The close_modal calls of extract_detailed_info: line 240 when the modal
\* opened, line 227 when the wait timed out, line 248 in the handler.
CloseCalls(outcome) ==
    IF outcome = "opened" THEN <<"close_modal">>
    ELSE IF outcome = "timeout" THEN <<"close_modal">>
    ELSE <<"close_modal">>

\* Whether a modal is open when extract_detailed_info returns.
ModalOpenAfter(outcome, close) == outcome = "opened" /\ close = "fails"

\* How the click on an element ends: the click (or scrollIntoView) raises,
\* the wait for the modal times out, or the modal opens.
ClickOutcomes == {"click_raises", "timeout", "opened"}

\* extract_detailed_info falling back to the rarity sentinel when the modal
\* does not open.
extract_detailed_info_rarity_default(outcome, m) ==
    IF outcome # "opened" THEN Entry("Sat_Rarity", "N/A")
    ELSE Merge(Merge(Merge(Merge(extract_image_info(m),
                                 extract_content_info(m)),
                           extract_owner_info(m)),
                     extract_inscription_details(m)),
               extract_rarity_info(m))

\* extract_detailed_info(element), the modal m being what the click opens.
extract_detailed_info(outcome, m) ==
    IF outcome # "opened" THEN EmptyDict
    ELSE Merge(Merge(Merge(Merge(extract_image_info(m),
                                 extract_content_info(m)),
                           extract_owner_info(m)),
                     extract_inscription_details(m)),
               extract_rarity_info(m))

(***************************************************************************)
(* Magiceden.py  scrape_all_ordinals                                       *)
(***************************************************************************)
max_scroll_batches == 8

\* The CSV columns (lines 645-647).
Columns == {"inscription_id", "name", "image_url", "content_type", "price_btc",
            "owner", "location", "value", "Sat_Rarity", "timestamp",
            "genesis_tx", "fetched_at"}

\* The fields filled in at lines 595-599.
RequiredFields == {"name", "image_url", "content_type", "price_btc", "owner",
                   "location", "value", "Sat_Rarity", "timestamp", "genesis_tx"}

\* The fields only extract_detailed_info provides.
DetailFields == {"image_url", "content_type", "owner", "location", "value",
                 "Sat_Rarity", "timestamp", "genesis_tx"}

\* datetime.now().isoformat()
Now == "2025-01-01T00:00:00"

\* Lines 588-599: merge, then every required field that is missing is None.
CompleteData(basic_info, detailed_info) ==
    LET merged == Merge(Merge(basic_info, detailed_info), Entry("fetched_at", Now)) IN
    [k \in (DOMAIN merged) \cup RequiredFields |->
        IF k \in DOMAIN merged THEN merged[k] ELSE None]

\* The seen set is left as it was.
SeenNotAdded(seen, id) == seen

\* Line 603: self.scraped_inscriptions.add(...)
SeenAfter(seen, id) == seen \cup {id}

\* The error handler returning an empty list.
ReturnEmptyOnError(data) == <<>>

\* Lines 630-632: the except branch of the whole scrape returns all_data.
ReturnOnError(data) == data

El(href, d1, d2, img, names, price) ==
    [href |-> href, data_id |-> d1, data_inscription_id |-> d2, img |-> img,
     names |-> names, price |-> price]

NoAttr == Attr("none", NoMatch)

\* An element every call on which raises (it left the DOM).
StaleElement ==
    El(NoUrl("raises"), Attr("raises", NoMatch), Attr("raises", NoMatch),
       NoSrc("raises"), <<Raises>>, Raises)

\* The elements the page presents during a scrape.
ScrapeElements ==
    {El(Url("item-details", id), NoAttr, NoAttr, NoSrc("raises"),
        <<"Sub 10k", "Ordinal A">>, "0.0059") : id \in InscriptionIds}
    \cup {El(NoUrl("none"), Attr("ok", id), NoAttr, NoSrc("none"), <<>>, NoMatch)
            : id \in InscriptionIds}
    \cup {El(NoUrl("raises"), NoAttr, Attr("ok", id), NoSrc("raises"), <<>>, NoMatch)
            : id \in InscriptionIds}
    \cup {El(Url("other", NoMatch), NoAttr, NoAttr, Src(NoMatch, id, NoMatch),
            <<"Ordinal A">>, "0.0059") : id \in InscriptionIds}
    \cup {El(Url("item-details", NoMatch), NoAttr, Attr("ok", ""),
            Src(NoMatch, NoMatch, NoMatch), <<"Ordinal A">>, "0.0059"),
          El(NoUrl("none"), NoAttr, NoAttr, NoSrc("raises"), <<>>, NoMatch),
          StaleElement}

Modal(imgs, text_st, ct, owner, location, value, timestamp, genesis_tx, rarity) ==
    [imgs |-> imgs, text_st |-> text_st, ct |-> ct, owner |-> owner,
     location |-> location, value |-> value, timestamp |-> timestamp,
     genesis_tx |-> genesis_tx, rarity |-> rarity]

\* A modal that shows every field.
FullModal ==
    Modal(<<ImgResult("ok", "https://ord.io/content/x.png", {"content", "png"})>>,
          "ok", <<"image/png", "image/png", NoMatch, NoMatch>>,
          <<OwnerCand("bc1qxy2kgdygjrsqtzq2n0yrf2493p83kkfjhx0wlh", 42, TRUE, FALSE)>>,
          <<"abc:0", NoMatch, NoMatch, NoMatch>>, "546",
          <<"2023-02-01", NoMatch, NoMatch, NoMatch>>,
          <<"abcdef", NoMatch, NoMatch, NoMatch>>,
          <<"rare", NoMatch, NoMatch, NoMatch>>)

\* A modal that is gone again when its text is read and shows no image.
BareModal ==
    Modal(<<ImgResult("raises", NoMatch, {})>>, "raises", <<>>, <<>>, <<>>,
          NoMatch, <<>>, <<>>, <<>>)

ScrapeModals == {FullModal, BareModal}

\* What the last step did with an element: whether one of the three id
\* strategies found an id, whether that id was in the seen set, whether a
\* call on the element raised, and how the click ended ("none": no click).
NoLast == [kind |-> "none", has_id |-> FALSE, dup |-> FALSE, raised |-> FALSE,
           click |-> "none"]

LastOf(el, seen, click) ==
    [kind |-> "element",
     has_id |-> Truthy(HrefId(el)) \/ Truthy(DataId(el)) \/ Truthy(ImgId(el)),
     dup |-> \/ HrefId(el) \in seen
             \/ (~Truthy(HrefId(el)) /\ DataId(el) \in seen)
             \/ (~Truthy(HrefId(el)) /\ ~Truthy(DataId(el)) /\ ImgId(el) \in seen),
     raised |-> \/ el.href.st = "raises"
                \/ el.data_id.st = "raises"
                \/ el.data_inscription_id.st = "raises",
     click |-> click]

ScrapeIdle ==
    /\ pc = "idle"
    /\ max_items = 0
    /\ all_data = <<>>
    /\ scraped_inscriptions = {}
    /\ scroll_batch = 0
    /\ num_elements = 0
    /\ idx = 0
    /\ processed_in_batch = 0
    /\ result = <<>>
    /\ escaped = "no"
    /\ last = NoLast

\* A fresh scraper whose scrape_all_ordinals(max_items) has set up the
\* driver and all_data = [] (lines 13-16, 533-534).
ScrapeInit ==
    /\ pc = "load"
    /\ max_items \in 1 .. MaxItemsBound
    /\ all_data = <<>>
    /\ scraped_inscriptions = {}
    /\ scroll_batch = 0
    /\ num_elements = 0
    /\ idx = 0
    /\ processed_in_batch = 0
    /\ result = <<>>
    /\ escaped = "no"
    /\ last = NoLast

\* Lines 537-549: the page loads.
LoadPage ==
    /\ pc = "load"
    /\ pc' = "while"
    /\ scroll_batch' = 0
    /\ last' = NoLast
    /\ UNCHANGED <<max_items, all_data, scraped_inscriptions, num_elements, idx,
                   processed_in_batch, result, escaped>>
    /\ UNCHANGED <<scrollVars, fullVars, extractVars, laterVars>>

\* Lines 537-546 raise (page load or wait for body): lines 630-632.
LoadPageRaises ==
    /\ pc = "load"
    /\ pc' = "done"
    /\ result' = ReturnOnError(all_data)
    /\ escaped' = "load"
    /\ last' = NoLast
    /\ UNCHANGED <<max_items, all_data, scraped_inscriptions, scroll_batch,
                   num_elements, idx, processed_in_batch>>
    /\ UNCHANGED <<scrollVars, fullVars, extractVars, laterVars>>

\* The while condition without the test of the target count.
WhileCondBatchesOnly == scroll_batch < max_scroll_batches

\* Line 551.
WhileCond == Len(all_data) < max_items /\ scroll_batch < max_scroll_batches

\* Lines 551, 622-628: the while condition fails, all_data is returned.
LoopExit ==
    /\ pc = "while"
    /\ ~WhileCond
    /\ pc' = "done"
    /\ result' = all_data
    /\ last' = NoLast
    /\ UNCHANGED <<max_items, all_data, scraped_inscriptions, scroll_batch,
                   num_elements, idx, processed_in_batch, escaped>>
    /\ UNCHANGED <<scrollVars, fullVars, extractVars, laterVars>>

\* Lines 551-567: a batch starts, scroll_to_load_more returns and
\* get_all_ordinal_elements finds n > 0 elements.
BatchStart ==
    /\ pc = "while"
    /\ WhileCond
    /\ \E n \in 1 .. MaxElements :
         /\ num_elements' = n
    /\ scroll_batch' = scroll_batch + 1
    /\ idx' = 0
    /\ processed_in_batch' = 0
    /\ pc' = "elements"
    /\ last' = NoLast
    /\ UNCHANGED <<max_items, all_data, scraped_inscriptions, result, escaped>>
    /\ UNCHANGED <<scrollVars, fullVars, extractVars, laterVars>>

\* Lines 551-564: get_all_ordinal_elements returns [] (nothing found, or its
\* own handler caught an error): break, all_data is returned.
BatchNoElements ==
    /\ pc = "while"
    /\ WhileCond
    /\ scroll_batch' = scroll_batch + 1
    /\ num_elements' = 0
    /\ pc' = "done"
    /\ result' = all_data
    /\ last' = NoLast
    /\ UNCHANGED <<max_items, all_data, scraped_inscriptions, idx,
                   processed_in_batch, escaped>>
    /\ UNCHANGED <<scrollVars, fullVars, extractVars, laterVars>>

\* Lines 551-556: scroll_to_load_more raises; the exception leaves the batch
\* loop and reaches lines 630-632.
BatchScrollRaises ==
    /\ pc = "while"
    /\ WhileCond
    /\ scroll_batch' = scroll_batch + 1
    /\ pc' = "done"
    /\ result' = ReturnOnError(all_data)
    /\ escaped' = "batch"
    /\ last' = NoLast
    /\ UNCHANGED <<max_items, all_data, scraped_inscriptions, num_elements, idx,
                   processed_in_batch>>
    /\ UNCHANGED <<scrollVars, fullVars, extractVars, laterVars>>

\* Lines 568-613: one element of the batch.
ProcessElement ==
    /\ pc = "elements"
    /\ idx < num_elements
    /\ Len(all_data) < max_items
    /\ \E el \in ScrapeElements, outcome \in ClickOutcomes, m \in ScrapeModals :
         LET basic_info == extract_basic_info(el, scraped_inscriptions) IN
         IF basic_info.none \/ basic_info.val = EmptyDict
         THEN \* line 578: continue
              /\ last' = LastOf(el, scraped_inscriptions, "none")
              /\ UNCHANGED <<all_data, scraped_inscriptions, processed_in_batch>>
         ELSE IF basic_info.val["inscription_id"] \in scraped_inscriptions
         THEN \* line 582: continue
              /\ last' = LastOf(el, scraped_inscriptions, "none")
              /\ UNCHANGED <<all_data, scraped_inscriptions, processed_in_batch>>
         ELSE /\ all_data' = Append(all_data,
                      CompleteData(basic_info.val, extract_detailed_info(outcome, m)))
              /\ scraped_inscriptions' =
                      SeenAfter(scraped_inscriptions, basic_info.val["inscription_id"])
              /\ processed_in_batch' = processed_in_batch + 1
              /\ last' = LastOf(el, scraped_inscriptions, outcome)
    /\ idx' = idx + 1
    /\ UNCHANGED <<pc, max_items, scroll_batch, num_elements, result, escaped>>
    /\ UNCHANGED <<scrollVars, fullVars, extractVars, laterVars>>

\* Lines 568-570, 615-620: the for loop ends (elements exhausted or max_items
\* reached); a batch without a new record ends the scrape.
BatchEnd ==
    /\ pc = "elements"
    /\ idx >= num_elements \/ Len(all_data) >= max_items
    /\ IF processed_in_batch = 0
       THEN pc' = "done" /\ result' = all_data
       ELSE pc' = "while" /\ UNCHANGED result
    /\ last' = NoLast
    /\ UNCHANGED <<max_items, all_data, scraped_inscriptions, scroll_batch,
                   num_elements, idx, processed_in_batch, escaped>>
    /\ UNCHANGED <<scrollVars, fullVars, extractVars, laterVars>>

NextScrape ==
    \/ LoadPage
    \/ LoadPageRaises
    \/ LoopExit
    \/ BatchStart
    \/ BatchNoElements
    \/ BatchScrollRaises
    \/ ProcessElement
    \/ BatchEnd

(***************************************************************************)
(* magiceden_full_scraper.py  extract_precise_nft_data                     *)
(*                                                                         *)
(* A card is described by its href, the inscription id found in its image  *)
(* src, whether reading it throws inside the script, and its text lines.   *)
(* A line is described by its text and by what the two price tests of      *)
(* lines 78-89 make of it:                                                 *)
(*   btc     the number captured by the '<d>.<d> BTC' pattern, or NoMatch  *)
(*   dec     the whole line is a decimal number                            *)
(*   range   that number is above 0.001 and below 50                       *)
(***************************************************************************)
Line(text, btc, dec, range) == [text |-> text, btc |-> btc, dec |-> dec, range |-> range]

CardLines ==
    {Line("0.0059 BTC", "0.0059", FALSE, FALSE),
     Line("Last 0.0100 BTC", "0.0100", FALSE, FALSE),
     Line("0.5", NoMatch, TRUE, TRUE),
     Line("0.0005", NoMatch, TRUE, FALSE),
     Line("Ordinal A", NoMatch, FALSE, FALSE),
     Line("12.5", NoMatch, TRUE, TRUE),
     Line("BTC", NoMatch, FALSE, FALSE)}

\* Lines 78-89 for one line: the price it sets, NoMatch when it sets none.
LinePrice(line) ==
    IF line.btc # NoMatch THEN line.btc \o " BTC"
    ELSE IF line.dec /\ line.range THEN line.text \o " BTC"
    ELSE NoMatch

RECURSIVE PriceLoop(_, _)
\* Lines 77-90: the loop runs over every line, without a break.
PriceLoop(lines, price) ==
    IF lines = <<>> THEN price
    ELSE PriceLoop(Tail(lines),
                   IF LinePrice(Head(lines)) # NoMatch THEN LinePrice(Head(lines))
                   ELSE price)

\* nft.price after lines 76-90.
ExtractPrice(lines) == PriceLoop(lines, "Unknown")

Card(href, img_id, throws, lines) ==
    [href |-> href, img_id |-> img_id, throws |-> throws, lines |-> lines]

\* Lines 45-58, 60-90, 125 and 127-142: the record pushed for one card
\* (the fields the name loop of lines 92-123 sets are left out).
ExtractCard(card, index) ==
    IF card.throws
    THEN [index |-> index, inscription_id |-> "Error", price |-> "Error",
          owner |-> "Error", content_type |-> "Error", location |-> "Error",
          output |-> "Error", rarity |-> "Error", detail_url |-> "Error"]
    ELSE [index |-> index,
          inscription_id |-> IF card.img_id = NoMatch THEN "Unknown" ELSE card.img_id,
          price |-> ExtractPrice(card.lines),
          owner |-> "Unknown", content_type |-> "Unknown", location |-> "Unknown",
          output |-> "Unknown", rarity |-> "Unknown", detail_url |-> card.href]

\* results of extractPreciseNFTData() for the cards of the page.
ExtractListing(cards) == [i \in 1 .. Len(cards) |-> ExtractCard(cards[i], i - 1)]

(***************************************************************************)
(* magiceden_full_scraper.py  scrape_with_precision                        *)
(***************************************************************************)
\* Lines 277-283: what extract_detailed_nft_info returns when it fails.
UnknownDetails ==
    [owner |-> "Unknown", content_type |-> "Unknown", location |-> "Unknown",
     output |-> "Unknown", rarity |-> "Unknown"]

\* What extract_detailed_nft_info returns for the detail pages of the model.
DetailedInfos ==
    {UnknownDetails,
     [owner |-> "bc1qxy2k...0wlh", content_type |-> "image/png",
      location |-> "Unknown", output |-> "Unknown", rarity |-> "Rare"]}

FullCards ==
    {Card("https://magiceden.io/ordinals/item/a", IdName(1), FALSE,
          <<Line("Ordinal A", NoMatch, FALSE, FALSE), Line("0.0059 BTC", "0.0059", FALSE, FALSE)>>),
     Card("https://magiceden.io/ordinals/item/b", NoMatch, FALSE, <<>>),
     Card("https://magiceden.io/ordinals/item/c", NoMatch, TRUE, <<>>)}

RECURSIVE SeqsUpTo(_, _)
\* The sequences over S of length at most n.
SeqsUpTo(S, n) ==
    IF n = 0 THEN {<<>>}
    ELSE LET shorter == SeqsUpTo(S, n - 1) IN
         shorter \cup {Append(q, e) : q \in shorter, e \in S}

\* list[:n]
Take(list, n) == SubSeq(list, 1, IF Len(list) < n THEN Len(list) ELSE n)

\* Lines 358-360: the except branch of scrape_with_precision.
FullReturnOnError(data) == <<>>

FullIdle ==
    /\ f_pc = "idle"
    /\ max_nfts = 0
    /\ nft_data = <<>>
    /\ f_idx = 0
    /\ enhanced_data = <<>>
    /\ f_result = <<>>
    /\ f_failed = "no"

\* scrape_with_precision(max_nfts) after setup_driver (line 290).
FullInit ==
    /\ f_pc = "load"
    /\ max_nfts \in 1 .. MaxNfts
    /\ nft_data = <<>>
    /\ f_idx = 0
    /\ enhanced_data = <<>>
    /\ f_result = <<>>
    /\ f_failed = "no"

\* Lines 293-317: the page loads and the listing is extracted and cut.
FullLoad ==
    /\ f_pc = "load"
    /\ \E cards \in SeqsUpTo(FullCards, MaxNfts) :
         LET listing == Take(ExtractListing(cards), max_nfts) IN
         IF listing = <<>>
         THEN \* line 308-310
              /\ f_pc' = "done"
              /\ f_result' = <<>>
              /\ UNCHANGED <<nft_data, enhanced_data>>
         ELSE /\ f_pc' = "loop"
              /\ nft_data' = listing
              /\ enhanced_data' = <<>>
              /\ UNCHANGED f_result
    /\ f_idx' = 0
    /\ UNCHANGED <<max_nfts, f_failed>>
    /\ UNCHANGED <<scrollVars, scrapeVars, extractVars, laterVars>>

\* Lines 293-302 raise (page load, wait for the cards): lines 358-360.
FullLoadRaises ==
    /\ f_pc = "load"
    /\ f_pc' = "done"
    /\ f_result' = FullReturnOnError(<<>>)
    /\ f_failed' = "load"
    /\ UNCHANGED <<max_nfts, nft_data, f_idx, enhanced_data>>
    /\ UNCHANGED <<scrollVars, scrapeVars, extractVars, laterVars>>

\* Lines 321-337: the record appended for nft.
EnhancedNft(nft, detailed_info) ==
    Merge(IF nft.detail_url \notin {"Unknown", "Error"}
          THEN Merge(nft, detailed_info) ELSE nft,
          Entry("scraped_at", Now))

\* Lines 318-349: one NFT is processed and appended; unless it is the last
\* one the main page is loaded again, and that load or its wait may raise
\* (lines 345-348), which ends the call at lines 358-360.
ProcessNft ==
    /\ f_pc = "loop"
    /\ f_idx < Len(nft_data)
    /\ \E detailed_info \in DetailedInfos, back \in {"ok", "raises"} :
         LET appended == Append(enhanced_data,
                                EnhancedNft(nft_data[f_idx + 1], detailed_info)) IN
         /\ enhanced_data' = appended
         /\ IF f_idx < Len(nft_data) - 1 /\ back = "raises"
            THEN /\ f_pc' = "done"
                 /\ f_result' = FullReturnOnError(appended)
                 /\ f_failed' = "back"
                 /\ UNCHANGED f_idx
            ELSE /\ f_idx' = f_idx + 1
                 /\ UNCHANGED <<f_pc, f_result, f_failed>>
    /\ UNCHANGED <<max_nfts, nft_data>>
    /\ UNCHANGED <<scrollVars, scrapeVars, extractVars, laterVars>>

\* Lines 351-356: the loop is over, enhanced_data is returned.
FullFinish ==
    /\ f_pc = "loop"
    /\ f_idx = Len(nft_data)
    /\ f_pc' = "done"
    /\ f_result' = enhanced_data
    /\ UNCHANGED <<max_nfts, nft_data, f_idx, enhanced_data, f_failed>>
    /\ UNCHANGED <<scrollVars, scrapeVars, extractVars, laterVars>>

NextFull == FullLoad \/ FullLoadRaises \/ ProcessNft \/ FullFinish

(***************************************************************************)
(* inscription_scraping.py  the price loop of extract_complete_data        *)
(***************************************************************************)
\* The value of a decimal line in units of 0.0001.
Value(text) ==
    IF text = "0.5" THEN 5000
    ELSE IF text = "0.0005" THEN 5
    ELSE IF text = "12.5" THEN 125000
    ELSE 0

\* 0.001 and 10 (line 92) in units of 0.0001.
price_floor == 10

price_ceiling == 100000

RECURSIVE CompletePriceLoop(_, _, _)
\* Lines 76-103: the price loop from line i on, the price so far being price.
CompletePriceLoop(lines, i, price) ==
    IF i > Len(lines) THEN price
    ELSE IF lines[i].btc # NoMatch
         THEN lines[i].btc \o " BTC"
    ELSE IF /\ lines[i].dec
            /\ Value(lines[i].text) > price_floor
            /\ Value(lines[i].text) < price_ceiling
         THEN IF i + 1 <= Len(lines) /\ lines[i + 1].text = "BTC"
              THEN lines[i].text \o " BTC"
              ELSE CompletePriceLoop(lines, i + 1, lines[i].text \o " BTC")
    ELSE CompletePriceLoop(lines, i + 1, price)

\* nft.price after lines 76-103.
CompletePrice(lines) == CompletePriceLoop(lines, 1, "Unknown")

(***************************************************************************)
(* model.py  extract_ordinal_details_from_modal                            *)
(*                                                                         *)
(* The page with the open modal is described by what the browser answers:  *)
(*   name      the h3 lookup: st "raises", "none" (no h3) or "ok" with the *)
(*             stripped text, its kind (which branch of lines 212-223 it   *)
(*             takes), the digits and the collection name in it            *)
(*   price     st and the two stripped texts of lines 234-235              *)
(*   text      details_text of lines 262-275 ("" when no selector shows a  *)
(*             text of more than 50 characters or the lookups raise) and   *)
(*             what the line scans and patterns of lines 280-287 and       *)
(*             444-480 find in it (NoMatch: nothing)                       *)
(*   mempool, user, inscription   the link lookups of lines 292, 303 and   *)
(*             323: st, and the part of the first href after the marker    *)
(*             (NoMatch: no link)                                          *)
(*   genesis, location   the container lookups of lines 341-353 and        *)
(*             384-396: st "raises", "none" (no container) or "ok" with    *)
(*             hash, the part of the first tx link after the marker        *)
(*             (NoMatch: no link)                                          *)
(*   clipboard   full_location of lines 411-424: None when there is no     *)
(*             span button or the click raises, else the text read         *)
(*   output    full_location.rsplit(':', 1)[0], NoMatch without ':'        *)
(***************************************************************************)
NameText(st, kind, text, digits, collection) ==
    [st |-> st, kind |-> kind, text |-> text, digits |-> digits,
     collection |-> collection]

\* Lines 207-225.
ModalName(page) ==
    IF page.name.st # "ok" THEN "Unknown"
    ELSE IF page.name.kind = "inscription" THEN "Inscription " \o page.name.digits
    ELSE IF page.name.kind = "inscription_no_digits" THEN "Unknown"
    ELSE IF page.name.kind = "collection" THEN page.name.collection
    ELSE IF page.name.kind = "hash_digits" THEN "Inscription " \o page.name.digits
    ELSE IF page.name.kind = "hash_other" THEN "Inscription"
    ELSE page.name.text

\* Lines 228-239.
ModalPrice(page) ==
    IF /\ page.price.st = "ok"
       /\ Truthy(page.price.value)
       /\ Truthy(page.price.currency)
    THEN page.price.value \o " " \o page.price.currency
    ELSE "Unknown"

\* A field a scan or pattern of the details text sets when it finds a value.
Found(v) == IF v = NoMatch THEN "Unknown" ELSE v

\* Lines 290-319.
ModalOwner(page) ==
    IF page.mempool.st = "raises" THEN "Unknown"
    ELSE IF page.mempool.part # NoMatch THEN page.mempool.part
    ELSE IF page.user.st = "raises" THEN "Unknown"
    ELSE IF page.user.part # NoMatch THEN page.user.part
    ELSE Found(page.text.owner)

\* Lines 322-337.
ModalInscriptionId(page) ==
    IF page.inscription.st = "raises" THEN "Unknown"
    ELSE IF page.inscription.part # NoMatch THEN page.inscription.part
    ELSE Found(page.text.inscription_id)

\* Lines 340-380.
ModalGenesis(page) ==
    IF page.genesis.st = "raises" THEN "Unknown"
    ELSE IF page.genesis.st = "ok" /\ page.genesis.hash \notin {NoMatch, "Unknown"}
         THEN page.genesis.hash
    ELSE Found(page.text.genesis_transaction)

\* Lines 398-408: full_tx_hash.
FullTxHash(page) ==
    IF page.location.hash = NoMatch THEN "Unknown" ELSE page.location.hash

\* Lines 383-441: location.
ModalLocation(page) ==
    IF page.location.st # "ok" THEN "Unknown"
    ELSE IF Truthy(page.clipboard) THEN page.clipboard
    ELSE IF Truthy(FullTxHash(page)) THEN FullTxHash(page)
    ELSE Found(page.text.location)

\* Lines 383-441: output.
ModalOutput(page) ==
    IF page.location.st # "ok" THEN "Unknown"
    ELSE IF Truthy(page.clipboard) THEN Found(page.output)
    ELSE IF Truthy(FullTxHash(page)) THEN FullTxHash(page)
    ELSE "Unknown"

\* Lines 464-466.
ModalImageUrl(page) ==
    IF ModalInscriptionId(page) # "Unknown"
    THEN "https://ord-mirror.magiceden.dev/content/" \o ModalInscriptionId(page)
    ELSE "Unknown"

\* datetime.now().strftime("%Y-%m-%d %H:%M:%S")
ScrapedTime == "2025-01-01 00:00:00"

\* extract_ordinal_details_from_modal(driver, current_index)
extract_ordinal_details_from_modal(page, current_index) ==
    [name |-> ModalName(page),
     inscription_number |-> Found(page.text.inscription_number),
     price |-> ModalPrice(page),
     owner |-> ModalOwner(page),
     content_type |-> Found(page.text.content_type),
     created |-> Found(page.text.created),
     location |-> ModalLocation(page),
     inscription_id |-> ModalInscriptionId(page),
     rarity |-> Found(page.text.rarity),
     sat_number |-> Found(page.text.sat_number),
     sat_name |-> Found(page.text.sat_name),
     genesis_transaction |-> ModalGenesis(page),
     output |-> ModalOutput(page),
     image_url |-> ModalImageUrl(page),
     full_details_text |-> page.text.details_text,
     scraped_time |-> ScrapedTime,
     ordinal_index |-> current_index]

\* What the h3 lookup can answer.
NameAnswers ==
    {NameText("raises", "plain", "", NoMatch, NoMatch),
     NameText("none", "plain", "", NoMatch, NoMatch),
     NameText("ok", "inscription", "Inscription #6896", "6896", NoMatch),
     NameText("ok", "inscription_no_digits", "Inscription #", NoMatch, NoMatch),
     NameText("ok", "collection", "Punk #12", NoMatch, "Punk"),
     NameText("ok", "hash_digits", "#6896", "6896", NoMatch),
     NameText("ok", "hash_other", "#abc", NoMatch, NoMatch),
     NameText("ok", "plain", "Ordinal A", NoMatch, NoMatch),
     NameText("ok", "plain", "", NoMatch, NoMatch)}

DetailsText(details_text, inscription_number, owner, inscription_id, genesis_transaction, location, sat_number, sat_name, content_type, created, rarity) ==
    [details_text |-> details_text, inscription_number |-> inscription_number,
     owner |-> owner, inscription_id |-> inscription_id,
     genesis_transaction |-> genesis_transaction, location |-> location,
     sat_number |-> sat_number, sat_name |-> sat_name,
     content_type |-> content_type, created |-> created, rarity |-> rarity]

\* No details text was found.
NoDetailsText ==
    DetailsText("", NoMatch, NoMatch, NoMatch, NoMatch, NoMatch, NoMatch, NoMatch,
                NoMatch, NoMatch, NoMatch)

\* A details text that shows every field.
FullDetailsText ==
    DetailsText("Inscription Number 6896 Owner bc1qowner ...", "6896", "bc1qowner",
                IdName(1), "abcdef", "abcdef:0:0", "1923456", "satname",
                "image/png", "2023-02-01", "common")

\* A details text of more than 50 characters that shows no field.
OtherDetailsText ==
    DetailsText("Lorem ipsum dolor sit amet, consectetur adipiscing elit", NoMatch,
                NoMatch, NoMatch, NoMatch, NoMatch, NoMatch, NoMatch, NoMatch,
                NoMatch, NoMatch)

Link(st, part) == [st |-> st, part |-> part]

Container(st, hash) == [st |-> st, hash |-> hash]

ModalPage(name, price, text, mempool, user, inscription, genesis, location, clipboard, output) ==
    [name |-> name, price |-> price, text |-> text, mempool |-> mempool,
     user |-> user, inscription |-> inscription, genesis |-> genesis,
     location |-> location, clipboard |-> clipboard, output |-> output]

\* A page every driver call on which raises.
RaisingPage ==
    ModalPage(NameText("raises", "plain", "", NoMatch, NoMatch),
              [st |-> "raises", value |-> NoMatch, currency |-> NoMatch],
              NoDetailsText, Link("raises", NoMatch), Link("raises", NoMatch),
              Link("raises", NoMatch), Container("raises", NoMatch),
              Container("raises", NoMatch), None, NoMatch)

\* The pages extract_ordinal_details_from_modal is applied to.
ModalPages ==
    {ModalPage(name, price, text, mempool, Link("ok", NoMatch), inscription,
               container, container, clipboard[1], clipboard[2]) :
        name \in NameAnswers,
        price \in {[st |-> "ok", value |-> "0.0059", currency |-> "BTC"],
                   [st |-> "ok", value |-> "", currency |-> "BTC"],
                   [st |-> "raises", value |-> NoMatch, currency |-> NoMatch]},
        text \in {NoDetailsText, FullDetailsText, OtherDetailsText},
        mempool \in {Link("ok", "bc1qowner"), Link("ok", NoMatch),
                     Link("raises", NoMatch)},
        inscription \in {Link("ok", IdName(1)), Link("ok", NoMatch)},
        container \in {Container("ok", "abcdef"), Container("ok", NoMatch),
                       Container("none", NoMatch)},
        clipboard \in {<<None, NoMatch>>, <<"abcdef:0:0", "abcdef:0">>}}
    \cup {RaisingPage,
          ModalPage(NameText("ok", "plain", "Ordinal A", NoMatch, NoMatch),
                    [st |-> "ok", value |-> "0.0059", currency |-> "BTC"],
                    FullDetailsText, Link("ok", NoMatch), Link("ok", "bc1quser"),
                    Link("ok", IdName(1)), Container("ok", "abcdef"),
                    Container("ok", "abcdef"), "abcdef", NoMatch)}

(***************************************************************************)
(* Magiceden.py  the batch loop of scrape_all_ordinals, records counted    *)
(*                                                                         *)
(* The loop of lines 551-620 once more, for runs of up to                  *)
(* max_scroll_batches batches. Of all_data only its length is kept, and of *)
(* an element only whether lines 573-604 append a record for it or skip    *)
(* it (no id, id already seen, exception caught at line 611).              *)
(***************************************************************************)
BatchIdle ==
    /\ b_pc = "idle"
    /\ b_max_items = 0
    /\ b_len = 0
    /\ b_scroll_batch = 0
    /\ b_left = 0
    /\ b_processed_in_batch = 0
    /\ b_start_len = 0
    /\ b_empty = 0

\* Lines 534, 548-549: all_data = [], scroll_batch = 0.
BatchInit ==
    /\ b_pc = "while"
    /\ b_max_items \in 1 .. MaxBatchItems
    /\ b_len = 0
    /\ b_scroll_batch = 0
    /\ b_left = 0
    /\ b_processed_in_batch = 0
    /\ b_start_len = 0
    /\ b_empty = 0

\* Line 551.
CountWhileCond == b_len < b_max_items /\ b_scroll_batch < max_scroll_batches

\* The loop going on after a batch without a new record.
BatchNeverBreaks(processed) == FALSE

\* Line 618.
BatchBreaks(processed) == processed = 0

\* Lines 551, 622-628.
CountLoopExit ==
    /\ b_pc = "while"
    /\ ~CountWhileCond
    /\ b_pc' = "done"
    /\ UNCHANGED <<b_max_items, b_len, b_scroll_batch, b_left,
                   b_processed_in_batch, b_start_len, b_empty>>
    /\ UNCHANGED <<scrollVars, scrapeVars, fullVars, extractVars, simpleVars, mainVars,
                   listingVars, multiVars>>

\* Lines 551-567: a batch starts and finds n > 0 elements.
CountBatchStart ==
    /\ b_pc = "while"
    /\ CountWhileCond
    /\ b_scroll_batch' = b_scroll_batch + 1
    /\ \E n \in 1 .. MaxElements : b_left' = n
    /\ b_processed_in_batch' = 0
    /\ b_start_len' = b_len
    /\ b_pc' = "elements"
    /\ UNCHANGED <<b_max_items, b_len, b_empty>>
    /\ UNCHANGED <<scrollVars, scrapeVars, fullVars, extractVars, simpleVars, mainVars,
                   listingVars, multiVars>>

\* Lines 551-564: the batch finds no elements: break.
CountBatchNoElements ==
    /\ b_pc = "while"
    /\ CountWhileCond
    /\ b_scroll_batch' = b_scroll_batch + 1
    /\ b_left' = 0
    /\ b_start_len' = b_len
    /\ b_empty' = b_empty + 1
    /\ b_pc' = "done"
    /\ UNCHANGED <<b_max_items, b_len, b_processed_in_batch>>
    /\ UNCHANGED <<scrollVars, scrapeVars, fullVars, extractVars, simpleVars, mainVars,
                   listingVars, multiVars>>

\* Lines 551-556, 630-632: scroll_to_load_more raises.
CountScrollRaises ==
    /\ b_pc = "while"
    /\ CountWhileCond
    /\ b_scroll_batch' = b_scroll_batch + 1
    /\ b_pc' = "done"
    /\ UNCHANGED <<b_max_items, b_len, b_left, b_processed_in_batch,
                   b_start_len, b_empty>>
    /\ UNCHANGED <<scrollVars, scrapeVars, fullVars, extractVars, simpleVars, mainVars,
                   listingVars, multiVars>>

\* Lines 568-613: one element, which yields a new record or is skipped.
CountElement ==
    /\ b_pc = "elements"
    /\ b_left > 0
    /\ b_len < b_max_items
    /\ \E new \in BOOLEAN :
         IF new
         THEN /\ b_len' = b_len + 1
              /\ b_processed_in_batch' = b_processed_in_batch + 1
         ELSE UNCHANGED <<b_len, b_processed_in_batch>>
    /\ b_left' = b_left - 1
    /\ UNCHANGED <<b_pc, b_max_items, b_scroll_batch, b_start_len, b_empty>>
    /\ UNCHANGED <<scrollVars, scrapeVars, fullVars, extractVars, simpleVars, mainVars,
                   listingVars, multiVars>>

\* Lines 568-570, 615-620: the for loop ends.
CountBatchEnd ==
    /\ b_pc = "elements"
    /\ b_left = 0 \/ b_len >= b_max_items
    /\ b_pc' = IF BatchBreaks(b_processed_in_batch) THEN "done" ELSE "while"
    /\ b_empty' = IF b_len = b_start_len THEN b_empty + 1 ELSE b_empty
    /\ UNCHANGED <<b_max_items, b_len, b_scroll_batch, b_left,
                   b_processed_in_batch, b_start_len>>
    /\ UNCHANGED <<scrollVars, scrapeVars, fullVars, extractVars, simpleVars, mainVars,
                   listingVars, multiVars>>

NextBatch ==
    \/ CountLoopExit
    \/ CountBatchStart
    \/ CountBatchNoElements
    \/ CountScrollRaises
    \/ CountElement
    \/ CountBatchEnd

(***************************************************************************)
(* simple.py  extract_ordinal_data                                         *)
(*                                                                         *)
(* A card is described by what the browser answers for it:                 *)
(*   digits     the digits the pattern '#<digits>' captures in the first   *)
(*              card line containing '#', NoMatch when no line has them    *)
(*   detail     the h3 text of the detail view: kind "inscription" for     *)
(*              'Inscription #<digits>', "custom_number" for another text  *)
(*              with '#<digits>', "custom" for a text without '#', "none"  *)
(*              when there is no h3, the lookup raises or the pattern      *)
(*              fails                                                      *)
(*   fallback_name   the first acceptable text of lines 130-136, NoMatch   *)
(*              when there is none or the lookup raises                    *)
(*   price_text, currency_text   the texts of lines 156-157, NoMatch when  *)
(*              an element is missing or the lookup raises                 *)
(*   img_src    the src of the card's <img>, Raises when there is none     *)
(*   content_url   what lines 177-249 find, NoMatch when nothing           *)
(***************************************************************************)
max_cards == 10

\* The bound of the position i in the while condition (line 37).
position_limit == 20

Detail(kind, text, digits) == [kind |-> kind, text |-> text, digits |-> digits]

NoDetail == Detail("none", NoMatch, NoMatch)

SimpleCard(digits, detail, fallback_name, price_text, currency_text, img_src, content_url) ==
    [digits |-> digits, detail |-> detail, fallback_name |-> fallback_name,
     price_text |-> price_text, currency_text |-> currency_text,
     img_src |-> img_src, content_url |-> content_url]

\* Lines 53-60.
CardNumber(card) ==
    IF card.digits = NoMatch THEN "Unknown" ELSE "#" \o card.digits

\* Lines 86-116: inscription_number after the detail view was read.
DetailNumber(card) ==
    IF card.detail.kind \in {"inscription", "custom_number"}
    THEN "#" \o card.detail.digits
    ELSE "Unknown"

\* Lines 86-116: name after the detail view was read.
DetailName(card) ==
    IF card.detail.kind = "inscription" THEN "Inscription " \o card.detail.digits
    ELSE IF card.detail.kind \in {"custom_number", "custom"} THEN card.detail.text
    ELSE "Unknown"

\* Lines 119-120.
OrdinalNumber(card) ==
    IF DetailNumber(card) = "Unknown" /\ CardNumber(card) # "Unknown"
    THEN CardNumber(card)
    ELSE DetailNumber(card)

\* Lines 119-138.
OrdinalName(card) ==
    LET name == IF /\ DetailNumber(card) = "Unknown"
                   /\ CardNumber(card) # "Unknown"
                   /\ DetailName(card) = "Unknown"
                THEN "Inscription " \o card.digits
                ELSE DetailName(card) IN
    IF name = "Unknown" /\ card.fallback_name # NoMatch
    THEN card.fallback_name
    ELSE name

\* Lines 148-162.
OrdinalPrice(card) ==
    IF Truthy(card.price_text) /\ Truthy(card.currency_text)
    THEN card.price_text \o " " \o card.currency_text
    ELSE "Unknown"

\* Lines 166-251.
OrdinalImage(card) ==
    IF card.img_src = Raises
    THEN IF card.content_url = NoMatch THEN "Unknown" ELSE card.content_url
    ELSE IF Truthy(card.img_src) THEN card.img_src
    ELSE "Unknown"

\* Lines 68-74 with the fields as they are at line 257.
Ordinal(card, processed) ==
    [index |-> processed + 1,
     name |-> OrdinalName(card),
     inscription_number |-> OrdinalNumber(card),
     image_url |-> OrdinalImage(card),
     price |-> OrdinalPrice(card)]

\* The set of processed numbers left as it was.
ProcessedNotAdded(processed, number) == processed

\* Lines 254-255.
ProcessedAfter(processed, number) ==
    IF number # "Unknown" THEN processed \cup {number} ELSE processed

\* The duplicate skip keeping the position.
SkipStays(i) == i

\* Lines 65 and 145: i += 1 before continue.
SkipAdvance(i) == i + 1

\* The digits of the inscription numbers the page shows.
Digits == {ToString(n) : n \in 1 .. NumNumbers}

\* The cards the page presents.
SimpleCards ==
    {SimpleCard(d, Detail("inscription", "Inscription #" \o d, d), NoMatch,
                "0.0059", "BTC", "https://img/a.png", NoMatch) : d \in Digits}
    \cup {SimpleCard(NoMatch, Detail("custom_number", "Punk #" \o d, d), NoMatch,
                     "0.0059", "BTC", "https://img/a.png", NoMatch) : d \in Digits}
    \cup {SimpleCard(d, NoDetail, NoMatch, "", NoMatch, Raises,
                     "https://ord-mirror.magiceden.dev/content/abc") : d \in Digits}
    \cup {SimpleCard(NoMatch, Detail("custom", "Ordinal A", NoMatch), NoMatch,
                     "0.0059", "BTC", "https://img/a.png", NoMatch),
          SimpleCard(NoMatch, NoDetail, "Ordinal A",
                     "0.0059", "BTC", "https://img/a.png", NoMatch)}

\* Where a WebDriver call of one iteration raises: nowhere, at lines 42-50
\* (finding the cards, reading the card text), at lines 77-82 (scrolling to
\* the card, the click), or at the ESCAPE of line 143 or 263.
SimpleFailures == {"none", "find", "open", "escape"}

\* What the last step did ("none", "break", "raised", "skip_card",
\* "skip_detail", "appended") and the inscription number it was about.
SimpleLast(path, number) == [path |-> path, number |-> number]

SimpleIdle ==
    /\ s_pc = "idle"
    /\ s_i = 0
    /\ cards_processed = 0
    /\ ordinal_data = <<>>
    /\ processed_numbers = {}
    /\ s_result = <<>>
    /\ s_iters = 0
    /\ s_last = SimpleLast("none", NoMatch)

\* Line 13: the driver is created.
SimpleInit ==
    /\ s_pc = "load"
    /\ s_i = 0
    /\ cards_processed = 0
    /\ ordinal_data = <<>>
    /\ processed_numbers = {}
    /\ s_result = <<>>
    /\ s_iters = 0
    /\ s_last = SimpleLast("none", NoMatch)

\* Lines 16-35.
SimpleLoad ==
    /\ s_pc = "load"
    /\ s_pc' = "loop"
    /\ s_i' = 1
    /\ cards_processed' = 0
    /\ ordinal_data' = <<>>
    /\ processed_numbers' = {}
    /\ UNCHANGED <<s_result, s_iters, s_last>>
    /\ UNCHANGED <<scrollVars, scrapeVars, fullVars, extractVars, batchVars, mainVars,
                   listingVars, multiVars>>

\* Lines 16-27 raise: lines 299-301 return [].
SimpleLoadRaises ==
    /\ s_pc = "load"
    /\ s_pc' = "done"
    /\ s_result' = <<>>
    /\ s_last' = SimpleLast("raised", NoMatch)
    /\ UNCHANGED <<s_i, cards_processed, ordinal_data, processed_numbers, s_iters>>
    /\ UNCHANGED <<scrollVars, scrapeVars, fullVars, extractVars, batchVars, mainVars,
                   listingVars, multiVars>>

\* Line 37.
SimpleWhileCond == cards_processed < max_cards /\ s_i < position_limit

\* Lines 37, 277-297: the while condition fails.
SimpleLoopExit ==
    /\ s_pc = "loop"
    /\ ~SimpleWhileCond
    /\ s_pc' = "done"
    /\ s_result' = ordinal_data
    /\ s_last' = SimpleLast("none", NoMatch)
    /\ UNCHANGED <<s_i, cards_processed, ordinal_data, processed_numbers, s_iters>>
    /\ UNCHANGED <<scrollVars, scrapeVars, fullVars, extractVars, batchVars, mainVars,
                   listingVars, multiVars>>

\* Lines 42-47: the page has no card at position i.
SimpleBreak ==
    /\ s_pc = "loop"
    /\ SimpleWhileCond
    /\ s_pc' = "done"
    /\ s_result' = ordinal_data
    /\ s_iters' = s_iters + 1
    /\ s_last' = SimpleLast("break", NoMatch)
    /\ UNCHANGED <<s_i, cards_processed, ordinal_data, processed_numbers>>
    /\ UNCHANGED <<scrollVars, scrapeVars, fullVars, extractVars, batchVars, mainVars,
                   listingVars, multiVars>>

\* Lines 40-275: one iteration for the card at position i.
SimpleIteration ==
    /\ s_pc = "loop"
    /\ SimpleWhileCond
    /\ s_iters' = s_iters + 1
    /\ \E card \in SimpleCards, fail \in SimpleFailures :
         LET ordinal == Ordinal(card, cards_processed) IN
         IF fail = "find"
         THEN \* lines 268-275
              /\ s_i' = s_i + 1
              /\ s_last' = SimpleLast("raised", NoMatch)
              /\ UNCHANGED <<cards_processed, ordinal_data, processed_numbers>>
         ELSE IF CardNumber(card) # "Unknown" /\ CardNumber(card) \in processed_numbers
         THEN \* lines 63-66
              /\ s_i' = SkipAdvance(s_i)
              /\ s_last' = SimpleLast("skip_card", CardNumber(card))
              /\ UNCHANGED <<cards_processed, ordinal_data, processed_numbers>>
         ELSE IF fail = "open"
         THEN \* lines 268-275
              /\ s_i' = s_i + 1
              /\ s_last' = SimpleLast("raised", CardNumber(card))
              /\ UNCHANGED <<cards_processed, ordinal_data, processed_numbers>>
         ELSE IF /\ ordinal.inscription_number # "Unknown"
                 /\ ordinal.inscription_number \in processed_numbers
         THEN \* lines 141-146, and lines 268-275 when the ESCAPE raises
              /\ s_i' = IF fail = "escape" THEN s_i + 1 ELSE SkipAdvance(s_i)
              /\ s_last' = SimpleLast("skip_detail", ordinal.inscription_number)
              /\ UNCHANGED <<cards_processed, ordinal_data, processed_numbers>>
         ELSE \* lines 254-266, and lines 268-275 when the ESCAPE raises
              /\ processed_numbers' =
                     ProcessedAfter(processed_numbers, ordinal.inscription_number)
              /\ ordinal_data' = Append(ordinal_data, ordinal)
              /\ cards_processed' = cards_processed + 1
              /\ s_i' = s_i + 1
              /\ s_last' = SimpleLast("appended", ordinal.inscription_number)
    /\ UNCHANGED <<s_pc, s_result>>
    /\ UNCHANGED <<scrollVars, scrapeVars, fullVars, extractVars, batchVars, mainVars,
                   listingVars, multiVars>>

NextSimple ==
    \/ SimpleLoad
    \/ SimpleLoadRaises
    \/ SimpleLoopExit
    \/ SimpleBreak
    \/ SimpleIteration

(***************************************************************************)
(* inscriptionDetail.py                                                    *)
(*                                                                         *)
(* A row of the input CSV is described by the texts of its cells. A fetch  *)
(* is described by what each of the four APIs answers, in order:           *)
(* "exception" (requests.RequestException), "status" (a status other than  *)
(* 200), "json" with the decoded body, or "text" (status 200, body not     *)
(* JSON).                                                                  *)
(***************************************************************************)
\* The float NaN pandas stores for a missing cell.
NaN == "float:nan"

\* The cell texts pd.read_csv reads as missing, as far as the model has them.
NaValues == {"", "nan", "NaN", "N/A", "NULL", "None"}

\* pd.read_csv of one cell.
ReadCsv(cell) == IF cell \in NaValues THEN NaN ELSE cell

\* str(value) of a cell value.
Str(v) == IF v = NaN THEN "nan" ELSE v

\* text.strip() for the texts of the model.
Strip(text) == IF text = "  " THEN "" ELSE text

\* text.lower() for the texts of the model.
Lower(text) ==
    IF text \in {"Unknown", "UNKNOWN"} THEN "unknown"
    ELSE IF text = "Error" THEN "error"
    ELSE text

\* Line 111.
SkipRow(inscription_id) ==
    Lower(inscription_id) = "unknown" \/ inscription_id = "" \/ inscription_id = "nan"

\* One answer: json is response.json(), text is response.text.
Api(st, json, text) == [st |-> st, json |-> json, text |-> text]

ApiException == Api("exception", EmptyDict, "")

ApiStatus == Api("status", EmptyDict, "Not Found")

ApiJson(body) == Api("json", body, "")

ApiText(text) == Api("text", EmptyDict, text)

RECURSIVE FirstResponse(_)
\* FirstResponse going on to the next API when the body is not JSON.
FirstResponseJsonOnly(responses) ==
    IF responses = <<>> THEN ReturnNone
    ELSE IF Head(responses).st = "json" THEN Return(Head(responses).json)
    ELSE FirstResponse(Tail(responses))

\* Lines 20-31.
FirstResponse(responses) ==
    IF responses = <<>> THEN ReturnNone
    ELSE IF Head(responses).st = "json" THEN Return(Head(responses).json)
    ELSE IF Head(responses).st = "text"
         THEN Return(Entry("raw_html", Head(responses).text))
    ELSE FirstResponse(Tail(responses))

\* Lines 13-18: the APIs, in the order of the list.
apis == <<"hiro", "ordapi", "ordinalsbot", "ordiscan">>

RECURSIVE Contacted(_, _)
\* Contacted without the return of lines 24-27: every API is called.
ContactedAll(urls, responses) ==
    urls

\* Lines 20-29: the APIs requests.get is called for, in call order.
Contacted(urls, responses) ==
    IF urls = <<>> THEN <<>>
    ELSE IF Head(responses).st \in {"json", "text"} THEN <<Head(urls)>>
    ELSE <<Head(urls)>> \o Contacted(Tail(urls), Tail(responses))

\* fetch_inscription_details(inscription_id), the APIs answering responses.
fetch_inscription_details(responses) == FirstResponse(responses)

\* data.get(k)
Get(data, k) == IF k \in DOMAIN data THEN data[k] ELSE None

\* a or b
Or(a, b) == IF Truthy(a) THEN a ELSE b

\* datetime.utcnow().isoformat()
UtcNow == "2025-01-01T00:00:00"

\* Lines 39-58.
NoDataRecord(inscription_id, name, price) ==
    [name |-> name, inscription_id |-> inscription_id, price |-> price,
     owner |-> "N/A", image_url |-> "N/A", previous |-> "N/A", root |-> "N/A",
     mime_type |-> "N/A", content_type |-> "N/A", inscription_number |-> "N/A",
     Sat_Rarity |-> " N/A", genesis_tx |-> "N/A", location |-> "N/A",
     value |-> "N/A", timestamp |-> "N/A", fetched_at |-> UtcNow]

\* extract_fields(data, inscription_id, name, price); both None and {} are
\* "not data" at line 39 and are passed as the empty dict.
extract_fields(data, inscription_id, name, price) ==
    IF data = EmptyDict
    THEN NoDataRecord(inscription_id, name, price)
    ELSE [name |-> Or(Get(data, "title"), Or(Get(data, "name"), name)),
          inscription_id |-> inscription_id,
          price |-> Or(Get(data, "price"),
                       Or(Get(data, "listed_price"), Or(price, "N/A"))),
          owner |-> Or(Get(data, "owner"),
                       Or(Get(data, "address"), Or(Get(data, "owner_address"), "N/A"))),
          image_url |-> Or(Get(data, "image"),
                           Or(Get(data, "content"), Or(Get(data, "content_url"), "N/A"))),
          previous |-> Or(Get(data, "prev"), Or(Get(data, "previous"), "N/A")),
          root |-> Or(Get(data, "root"), "N/A"),
          mime_type |-> Or(Get(data, "mime_type"), Or(Get(data, "mime"), "N/A")),
          content_type |-> Or(Get(data, "content_type"), "N/A"),
          inscription_number |-> Or(Get(data, "inscription_number"),
                                    Or(Get(data, "number"), "N/A")),
          Sat_Rarity |-> Or(Get(data, "sat_rarity"), Or(Get(data, "rarity"), "N/A")),
          genesis_tx |-> Or(Get(data, "genesis_tx"),
                            Or(Get(data, "genesis_transaction"), "N/A")),
          location |-> Or(Get(data, "location"), "N/A"),
          value |-> Or(Get(data, "value"), "N/A"),
          timestamp |-> Or(Get(data, "timestamp"), Or(Get(data, "created_at"), "N/A")),
          fetched_at |-> UtcNow]

\* The inscription_id cells of the input CSV.
IdCells == {"Unknown", "UNKNOWN", "Error", "", "  ", "nan", IdName(1)}

Row(inscription_id, name, price) ==
    [inscription_id |-> inscription_id, name |-> name, price |-> price]

\* The rows of the input CSV.
MainRows ==
    {Row(id, "Ordinal A", price) : id \in IdCells, price \in {"0.0059 BTC", ""}}

\* A decoded JSON body.
JsonBody == [title |-> "Ordinal One", owner |-> "", address |-> "bc1qowner"]

\* What the four APIs answer to one fetch.
ApiResponses ==
    {<<ApiException, ApiException, ApiException, ApiException>>,
     <<ApiStatus, ApiStatus, ApiStatus, ApiStatus>>,
     <<ApiJson(JsonBody), ApiException, ApiException, ApiException>>,
     <<ApiStatus, ApiException, ApiText("<html>"), ApiJson(JsonBody)>>,
     <<ApiJson(EmptyDict), ApiJson(JsonBody), ApiException, ApiException>>}

\* What the last step did with a row: the inscription_id cell, and whether
\* a fetch was made for it.
MainLast(cell, fetched) == [kind |-> "row", cell |-> cell, fetched |-> fetched]

NoMainLast == [kind |-> "none", cell |-> "", fetched |-> FALSE]

MainIdle ==
    /\ m_pc = "idle"
    /\ m_len = 0
    /\ m_idx = 0
    /\ results = <<>>
    /\ m_fetched = <<>>
    /\ m_saved = <<>>
    /\ m_last = NoMainLast

\* Line 99.
MainInit ==
    /\ m_pc = "read"
    /\ m_len = 0
    /\ m_idx = 0
    /\ results = <<>>
    /\ m_fetched = <<>>
    /\ m_saved = <<>>
    /\ m_last = NoMainLast

\* Lines 100-104: the CSV is read, it has m_len rows.
MainRead ==
    /\ m_pc = "read"
    /\ m_len' \in 0 .. MaxRows
    /\ m_idx' = 0
    /\ results' = <<>>
    /\ m_pc' = "rows"
    /\ UNCHANGED <<m_fetched, m_saved, m_last>>
    /\ UNCHANGED <<scrollVars, scrapeVars, fullVars, extractVars, batchVars, simpleVars,
                   listingVars, multiVars>>

\* Line 100 raises (no such file): the exception leaves main.
MainReadRaises ==
    /\ m_pc = "read"
    /\ m_pc' = "raised"
    /\ UNCHANGED <<m_len, m_idx, results, m_fetched, m_saved, m_last>>
    /\ UNCHANGED <<scrollVars, scrapeVars, fullVars, extractVars, batchVars, simpleVars,
                   listingVars, multiVars>>

\* Lines 106-122: one row.
MainRow ==
    /\ m_pc = "rows"
    /\ m_idx < m_len
    /\ \E row \in MainRows, responses \in ApiResponses :
         LET inscription_id == Strip(Str(ReadCsv(row.inscription_id)))
             name == Strip(Str(ReadCsv(row.name)))
             price == IF ReadCsv(row.price) # NaN
                      THEN Strip(Str(ReadCsv(row.price))) ELSE "N/A" IN
         IF SkipRow(inscription_id)
         THEN /\ m_last' = MainLast(row.inscription_id, FALSE)
              /\ UNCHANGED <<results, m_fetched>>
         ELSE /\ m_fetched' = Append(m_fetched, inscription_id)
              /\ results' = Append(results,
                     extract_fields(fetch_inscription_details(responses).val,
                                    inscription_id, name, price))
              /\ m_last' = MainLast(row.inscription_id, TRUE)
    /\ m_idx' = m_idx + 1
    /\ UNCHANGED <<m_pc, m_len, m_saved>>
    /\ UNCHANGED <<scrollVars, scrapeVars, fullVars, extractVars, batchVars, simpleVars,
                   listingVars, multiVars>>

\* Lines 124, 81-94: save_results(results).
MainSave ==
    /\ m_pc = "rows"
    /\ m_idx >= m_len
    /\ m_saved' = results
    /\ m_pc' = "done"
    /\ m_last' = NoMainLast
    /\ UNCHANGED <<m_len, m_idx, results, m_fetched>>
    /\ UNCHANGED <<scrollVars, scrapeVars, fullVars, extractVars, batchVars, simpleVars,
                   listingVars, multiVars>>

NextMain == MainRead \/ MainReadRaises \/ MainRow \/ MainSave

(***************************************************************************)
(* inscription_scraping.py                                                 *)
(*                                                                         *)
(* A card is described by its image (st "none" when there is no <img> or   *)
(* no src; content: the id the content pattern captures; renderer_host:    *)
(* the src contains 'renderer.magiceden.dev'; renderer: the id the id=     *)
(* pattern captures), whether reading it throws inside the script, its     *)
(* text lines, and the names strategies 3 and 4 select (NoMatch: none).    *)
(***************************************************************************)
Img(st, content, renderer_host, renderer) ==
    [st |-> st, content |-> content, renderer_host |-> renderer_host,
     renderer |-> renderer]

ListingCard(img, throws, lines, potential_name, element_name) ==
    [img |-> img, throws |-> throws, lines |-> lines,
     potential_name |-> potential_name, element_name |-> element_name]

\* Lines 53-69: the id of the image URL, NoMatch when neither pattern
\* yields one.
ListingId(card) ==
    IF card.img.st = "none" THEN NoMatch
    ELSE IF card.img.content # NoMatch THEN card.img.content
    ELSE IF card.img.renderer_host THEN card.img.renderer
    ELSE NoMatch

\* Lines 105-187.
ListingName(card) ==
    IF card.potential_name # NoMatch THEN card.potential_name
    ELSE IF card.element_name # NoMatch THEN card.element_name
    ELSE "Unknown"

\* Lines 45-199: the record pushed for the card at index.
CompleteCard(card, index) ==
    IF card.throws
    THEN [index |-> index, name |-> "Error_" \o ToString(index),
          inscription_id |-> "Error", price |-> "Error"]
    ELSE [index |-> index, name |-> ListingName(card),
          inscription_id |-> IF ListingId(card) = NoMatch THEN "Unknown"
                            ELSE ListingId(card),
          price |-> CompletePrice(card.lines)]

\* extract_complete_data() when the script runs.
extract_complete_data(cards) ==
    [i \in 1 .. Len(cards) |-> CompleteCard(cards[i], i - 1)]

\* Lines 238-241.
WithScrapedAt(data) ==
    [i \in 1 .. Len(data) |->
        [index |-> data[i].index, name |-> data[i].name,
         inscription_id |-> data[i].inscription_id, price |-> data[i].price,
         scraped_at |-> Now]]

\* Lines 277-285: the rows written for data.
CsvRows(data) ==
    [i \in 1 .. Len(data) |->
        [index |-> data[i].index, name |-> data[i].name,
         inscription_id |-> data[i].inscription_id, price |-> data[i].price,
         scraped_at |-> data[i].scraped_at]]

\* The cards of the page.
ListingCards ==
    {ListingCard(Img("ok", IdName(1), FALSE, NoMatch), FALSE,
                 <<Line("Ordinal A", NoMatch, FALSE, FALSE),
                   Line("0.0059 BTC", "0.0059", FALSE, FALSE)>>, "Ordinal A", NoMatch),
     ListingCard(Img("ok", NoMatch, TRUE, IdName(2)), FALSE,
                 <<Line("0.5", NoMatch, TRUE, TRUE), Line("BTC", NoMatch, FALSE, FALSE)>>,
                 NoMatch, "Ordinal B"),
     ListingCard(Img("ok", NoMatch, FALSE, IdName(2)), FALSE,
                 <<Line("0.0059 BTC", "0.0059", FALSE, FALSE)>>, NoMatch, NoMatch),
     ListingCard(Img("ok", NoMatch, TRUE, NoMatch), FALSE, <<>>, "Ordinal A", NoMatch),
     ListingCard(Img("none", NoMatch, FALSE, NoMatch), FALSE,
                 <<Line("Ordinal A", NoMatch, FALSE, FALSE)>>, "Ordinal A", NoMatch),
     ListingCard(Img("none", NoMatch, FALSE, NoMatch), TRUE, <<>>, NoMatch, NoMatch)}

ListingIdle ==
    /\ l_pc = "idle"
    /\ l_cards = <<>>
    /\ l_nft_data = <<>>
    /\ l_written = <<>>

\* Line 345.
ListingInit ==
    /\ l_pc = "scrape"
    /\ l_cards = <<>>
    /\ l_nft_data = <<>>
    /\ l_written = <<>>

\* Lines 215-257: scrape_complete_data() on a page that shows cards.
ListingScrape ==
    /\ l_pc = "scrape"
    /\ \E cards \in SeqsUpTo(ListingCards, MaxNfts) :
         /\ l_cards' = cards
         /\ l_nft_data' = WithScrapedAt(extract_complete_data(cards))
    /\ l_pc' = "scraped"
    /\ UNCHANGED l_written
    /\ UNCHANGED <<scrollVars, scrapeVars, fullVars, extractVars, batchVars,
                   simpleVars, mainVars, multiVars>>

\* Lines 36-37, 211-213: execute_script raises, extract_complete_data
\* returns [].
ListingScriptRaises ==
    /\ l_pc = "scrape"
    /\ \E cards \in SeqsUpTo(ListingCards, MaxNfts) : l_cards' = cards
    /\ l_nft_data' = <<>>
    /\ l_pc' = "scraped"
    /\ UNCHANGED l_written
    /\ UNCHANGED <<scrollVars, scrapeVars, fullVars, extractVars, batchVars,
                   simpleVars, mainVars, multiVars>>

\* Lines 222-232, 259-261: the page load or the wait raises.
ListingLoadRaises ==
    /\ l_pc = "scrape"
    /\ l_nft_data' = <<>>
    /\ l_pc' = "scraped"
    /\ UNCHANGED <<l_cards, l_written>>
    /\ UNCHANGED <<scrollVars, scrapeVars, fullVars, extractVars, batchVars,
                   simpleVars, mainVars, multiVars>>

\* Lines 350-352, 266-288: save_to_single_csv writes every record.
ListingSave ==
    /\ l_pc = "scraped"
    /\ l_nft_data # <<>>
    /\ l_written' = CsvRows(l_nft_data)
    /\ l_pc' = "done"
    /\ UNCHANGED <<l_cards, l_nft_data>>
    /\ UNCHANGED <<scrollVars, scrapeVars, fullVars, extractVars, batchVars,
                   simpleVars, mainVars, multiVars>>

\* Lines 273, 290-292: the file cannot be opened.
ListingSaveRaises ==
    /\ l_pc = "scraped"
    /\ l_nft_data # <<>>
    /\ l_pc' = "done"
    /\ UNCHANGED <<l_cards, l_nft_data, l_written>>
    /\ UNCHANGED <<scrollVars, scrapeVars, fullVars, extractVars, batchVars,
                   simpleVars, mainVars, multiVars>>

\* Lines 350, 368-369: nothing was scraped.
ListingNoData ==
    /\ l_pc = "scraped"
    /\ l_nft_data = <<>>
    /\ l_pc' = "done"
    /\ UNCHANGED <<l_cards, l_nft_data, l_written>>
    /\ UNCHANGED <<scrollVars, scrapeVars, fullVars, extractVars, batchVars,
                   simpleVars, mainVars, multiVars>>

NextListing ==
    \/ ListingScrape
    \/ ListingScriptRaises
    \/ ListingLoadRaises
    \/ ListingSave
    \/ ListingSaveRaises
    \/ ListingNoData

(***************************************************************************)
(* The extractors applied to one bounded input                             *)
(***************************************************************************)
\* Elements for extract_basic_info: every combination of what the three id
\* strategies can find.
ExtractElements ==
    {El(href, d1, d2, img, <<"Ordinal A">>, "0.0059") :
        href \in {NoUrl("none"), NoUrl("raises")}
                 \cup {Url(path, id) : path \in {"item-details", "other"},
                                       id \in InscriptionIds \cup {NoMatch}},
        d1 \in {NoAttr, Attr("raises", NoMatch), Attr("ok", "")}
               \cup {Attr("ok", id) : id \in InscriptionIds},
        d2 \in {NoAttr} \cup {Attr("ok", id) : id \in InscriptionIds},
        img \in {NoSrc("raises"), NoSrc("none")}
                \cup {Src(m1, m2, m3) : m1 \in InscriptionIds \cup {NoMatch},
                                        m2 \in InscriptionIds \cup {NoMatch},
                                        m3 \in InscriptionIds \cup {NoMatch}}}

\* What one image selector of the modal can find.
ImgResults ==
    {ImgResult("raises", NoMatch, {}),
     ImgResult("ok", None, {}),
     ImgResult("ok", "https://cdn/logo.png", {"png"}),
     ImgResult("ok", "https://ord/content/a", {"content"}),
     ImgResult("ok", "https://ord/content/a.png", {"content", "png"}),
     ImgResult("ok", "https://ord/renderer/a.png.webp", {"renderer", "png", "webp"}),
     ImgResult("ok", "https://ord/content/a.html", {"content", "html"})}

\* What one content-type pattern can capture.
ContentTypeMatches == {NoMatch, "unknown", "text/html"}

\* Modals for extract_detailed_info: the image selectors and the content-type
\* patterns vary, the other fields are those of FullModal.
ExtractModals ==
    {[[FullModal EXCEPT !.imgs = imgs] EXCEPT !.ct = <<c1, c2, c3, c4>>] :
        imgs \in SeqsUpTo(ImgResults, 2),
        c1 \in ContentTypeMatches, c2 \in ContentTypeMatches,
        c3 \in {NoMatch}, c4 \in ContentTypeMatches}
    \cup {BareModal}

\* What one owner pattern can capture: nothing, or a text of 7, 5, 15, 15,
\* 12 or 34 characters, with or without the prefix 'bc1' or an ellipsis.
OwnerCands ==
    {OwnerCand(NoMatch, 0, FALSE, FALSE),
     OwnerCand("bc1qabc", 7, TRUE, FALSE),
     OwnerCand("alice", 5, FALSE, FALSE),
     OwnerCand("SatoshiNakamoto", 15, FALSE, FALSE),
     OwnerCand("3FZbgi...tktZc5", 15, FALSE, TRUE),
     OwnerCand("bc1qxy2kgdyg", 12, TRUE, FALSE),
     OwnerCand("1A1zP1eP5QGefi2DMPTfTL5SLmv7DivfNa", 34, FALSE, FALSE)}

\* Modals for extract_owner_info: the four owner patterns vary. A text the
\* fourth pattern ('Owner Address') matches is also matched by the first
\* ('Owner').
OwnerModals ==
    {[FullModal EXCEPT !.owner = cs] :
        cs \in {t \in OwnerCands \X OwnerCands \X OwnerCands \X OwnerCands :
                    t[4].text = NoMatch \/ t[1].text # NoMatch}}
    \cup {BareModal}

\* The arguments of one call of extract_fields.
Args(data, inscription_id, name, price) == [data |-> data, inscription_id |-> inscription_id, name |-> name, price |-> price]

NoArgs == Args(EmptyDict, "", "", "")

\* A decoded JSON body that carries the number 0 under first keys.
ZeroBody ==
    [title |-> "Ordinal One", inscription_number |-> Zero, number |-> "77",
     value |-> Zero, owner |-> "bc1qowner", timestamp |-> "2023-02-01"]

\* What extract_fields is called with: no data (None or {}), a JSON body,
\* or the raw text of an answer that was not JSON.
FieldArgs ==
    {Args(data, IdName(1), name, price) :
        data \in {EmptyDict, JsonBody, ZeroBody, Entry("raw_html", "<html>")},
        name \in {"Ordinal A", ""},
        price \in {"0.0059 BTC", "N/A"}}

\* What the four APIs can answer to one fetch.
FetchResponses ==
    LET Answers == {ApiException, ApiStatus, ApiJson(JsonBody), ApiText("<html>")} IN
    {<<a, b, c, d>> : a \in Answers, b \in Answers, c \in Answers, d \in Answers}

\* What a rarity pattern can capture, stripped and lower-cased (line 462).
RarityTexts ==
    {NoMatch, "common", "uncommon", "rare", "epic", "legendary", "mythic",
     "standard", "unique", ""}

\* Modals for extract_rarity_info: the rarity patterns vary. A text the
\* second pattern ('Sat Rarity') matches is also matched by the first
\* ('Rarity').
RarityModals ==
    {[FullModal EXCEPT !.rarity = <<r[1], r[2], NoMatch, NoMatch>>] :
        r \in {t \in RarityTexts \X RarityTexts : t[2] = NoMatch \/ t[1] # NoMatch}}
    \cup {BareModal}

ExtractIdle ==
    /\ x_fn = "none"
    /\ x_pc = "idle"
    /\ x_element = StaleElement
    /\ x_seen = {}
    /\ x_outcome = "timeout"
    /\ x_modal = BareModal
    /\ x_lines = <<>>
    /\ x_page = RaisingPage
    /\ x_ret = <<>>
    /\ x_responses = <<>>
    /\ x_args = NoArgs
    /\ x_trace = <<>>
    /\ x_open = FALSE

\* The inputs of the extractors of Magiceden.py, magiceden_full_scraper.py
\* and inscription_scraping.py.
ExtractInitMagiceden ==
    /\ \/ /\ x_fn = "extract_basic_info"
          /\ x_element \in ExtractElements
          /\ x_seen \in {{}, {IdName(1)}}
          /\ x_outcome = "timeout" /\ x_modal = BareModal /\ x_lines = <<>>
       \/ /\ x_fn = "extract_detailed_info"
          /\ x_outcome \in ClickOutcomes
          /\ x_modal \in ExtractModals
          /\ x_element = StaleElement /\ x_seen = {} /\ x_lines = <<>>
       \/ /\ x_fn \in {"extract_price", "extract_complete_data_price",
                       "extract_basic_info_price"}
          /\ x_lines \in SeqsUpTo(CardLines, MaxLines)
          /\ x_element = StaleElement /\ x_seen = {}
          /\ x_outcome = "timeout" /\ x_modal = BareModal
       \/ /\ x_fn = "extract_owner_info"
          /\ x_modal \in OwnerModals
          /\ x_outcome = "opened"
          /\ x_element = StaleElement /\ x_seen = {} /\ x_lines = <<>>
       \/ /\ x_fn = "extract_rarity_info"
          /\ x_modal \in RarityModals
          /\ x_outcome = "opened"
          /\ x_element = StaleElement /\ x_seen = {} /\ x_lines = <<>>

\* The inputs of the two functions of inscriptionDetail.py.
ExtractInitDetail ==
    /\ x_element = StaleElement /\ x_seen = {} /\ x_lines = <<>>
    /\ x_outcome = "timeout" /\ x_modal = BareModal
    /\ \/ /\ x_fn = "fetch_inscription_details"
          /\ x_responses \in FetchResponses
          /\ x_args = NoArgs
       \/ /\ x_fn = "extract_fields"
          /\ x_responses = <<>>
          /\ x_args \in FieldArgs

ExtractInit ==
    /\ x_pc = "call"
    /\ x_ret = <<>>
    /\ x_trace = <<>>
    /\ x_open = FALSE
    /\ \/ /\ x_fn = "extract_ordinal_details_from_modal"
          /\ x_page \in ModalPages
          /\ x_element = StaleElement /\ x_seen = {} /\ x_lines = <<>>
          /\ x_outcome = "timeout" /\ x_modal = BareModal
          /\ x_responses = <<>> /\ x_args = NoArgs
       \/ /\ x_page = RaisingPage
          /\ x_responses = <<>> /\ x_args = NoArgs
          /\ ExtractInitMagiceden
       \/ /\ x_page = RaisingPage
          /\ ExtractInitDetail

CallExtractBasicInfo ==
    /\ x_pc = "call"
    /\ x_fn = "extract_basic_info"
    /\ x_ret' = extract_basic_info(x_element, x_seen)
    /\ x_pc' = "returned"
    /\ UNCHANGED <<x_fn, x_element, x_seen, x_outcome, x_modal, x_lines, x_page>>
    /\ UNCHANGED <<x_responses, x_args, x_trace, x_open>>
    /\ UNCHANGED <<scrollVars, scrapeVars, fullVars, laterVars>>

CallExtractDetailedInfo ==
    /\ x_pc = "call"
    /\ x_fn = "extract_detailed_info"
    /\ x_ret' = extract_detailed_info(x_outcome, x_modal)
    /\ x_trace' = CloseCalls(x_outcome)
    /\ \E close \in CloseOutcomes : x_open' = ModalOpenAfter(x_outcome, close)
    /\ x_pc' = "returned"
    /\ UNCHANGED <<x_fn, x_element, x_seen, x_outcome, x_modal, x_lines, x_page>>
    /\ UNCHANGED <<x_responses, x_args>>
    /\ UNCHANGED <<scrollVars, scrapeVars, fullVars, laterVars>>

CallExtractPrice ==
    /\ x_pc = "call"
    /\ x_fn = "extract_price"
    /\ x_ret' = ExtractPrice(x_lines)
    /\ x_pc' = "returned"
    /\ UNCHANGED <<x_fn, x_element, x_seen, x_outcome, x_modal, x_lines, x_page>>
    /\ UNCHANGED <<x_responses, x_args, x_trace, x_open>>
    /\ UNCHANGED <<scrollVars, scrapeVars, fullVars, laterVars>>

\* inscription_scraping.py, lines 76-103.
CallCompletePrice ==
    /\ x_pc = "call"
    /\ x_fn = "extract_complete_data_price"
    /\ x_ret' = CompletePrice(x_lines)
    /\ x_pc' = "returned"
    /\ UNCHANGED <<x_fn, x_element, x_seen, x_outcome, x_modal, x_lines, x_page>>
    /\ UNCHANGED <<x_responses, x_args, x_trace, x_open>>
    /\ UNCHANGED <<scrollVars, scrapeVars, fullVars, laterVars>>

\* Magiceden.py, lines 194-201, for an element with the text x_lines.
CallBasicPrice ==
    /\ x_pc = "call"
    /\ x_fn = "extract_basic_info_price"
    /\ x_ret' = PriceInfo([x_element EXCEPT !.price = BasicPrice(x_lines)])
    /\ x_pc' = "returned"
    /\ UNCHANGED <<x_fn, x_element, x_seen, x_outcome, x_modal, x_lines, x_page>>
    /\ UNCHANGED <<x_responses, x_args, x_trace, x_open>>
    /\ UNCHANGED <<scrollVars, scrapeVars, fullVars, laterVars>>

\* model.py, lines 193-485, for the ordinal at index 0.
CallExtractOrdinalDetails ==
    /\ x_pc = "call"
    /\ x_fn = "extract_ordinal_details_from_modal"
    /\ x_ret' = extract_ordinal_details_from_modal(x_page, 0)
    /\ x_pc' = "returned"
    /\ UNCHANGED <<x_fn, x_element, x_seen, x_outcome, x_modal, x_lines, x_page>>
    /\ UNCHANGED <<x_responses, x_args, x_trace, x_open>>
    /\ UNCHANGED <<scrollVars, scrapeVars, fullVars, laterVars>>

CallExtractOwnerInfo ==
    /\ x_pc = "call"
    /\ x_fn = "extract_owner_info"
    /\ x_ret' = extract_owner_info(x_modal)
    /\ x_pc' = "returned"
    /\ UNCHANGED <<x_fn, x_element, x_seen, x_outcome, x_modal, x_lines, x_page>>
    /\ UNCHANGED <<x_responses, x_args, x_trace, x_open>>
    /\ UNCHANGED <<scrollVars, scrapeVars, fullVars, laterVars>>

\* inscriptionDetail.py, lines 9-31.
CallFetchInscriptionDetails ==
    /\ x_pc = "call"
    /\ x_fn = "fetch_inscription_details"
    /\ x_ret' = fetch_inscription_details(x_responses)
    /\ x_trace' = Contacted(apis, x_responses)
    /\ x_pc' = "returned"
    /\ UNCHANGED <<x_fn, x_element, x_seen, x_outcome, x_modal, x_lines, x_page>>
    /\ UNCHANGED <<x_responses, x_args, x_open>>
    /\ UNCHANGED <<scrollVars, scrapeVars, fullVars, laterVars>>

\* inscriptionDetail.py, lines 35-77.
CallExtractFields ==
    /\ x_pc = "call"
    /\ x_fn = "extract_fields"
    /\ x_ret' = extract_fields(x_args.data, x_args.inscription_id, x_args.name,
                               x_args.price)
    /\ x_pc' = "returned"
    /\ UNCHANGED <<x_fn, x_element, x_seen, x_outcome, x_modal, x_lines, x_page>>
    /\ UNCHANGED <<x_responses, x_args, x_trace, x_open>>
    /\ UNCHANGED <<scrollVars, scrapeVars, fullVars, laterVars>>

CallExtractRarityInfo ==
    /\ x_pc = "call"
    /\ x_fn = "extract_rarity_info"
    /\ x_ret' = extract_rarity_info(x_modal)
    /\ x_pc' = "returned"
    /\ UNCHANGED <<x_fn, x_element, x_seen, x_outcome, x_modal, x_lines, x_page>>
    /\ UNCHANGED <<x_responses, x_args, x_trace, x_open>>
    /\ UNCHANGED <<scrollVars, scrapeVars, fullVars, laterVars>>

NextExtract ==
    \/ CallExtractBasicInfo
    \/ CallExtractDetailedInfo
    \/ CallExtractPrice
    \/ CallCompletePrice
    \/ CallBasicPrice
    \/ CallExtractOwnerInfo
    \/ CallExtractOrdinalDetails
    \/ CallExtractRarityInfo
    \/ CallFetchInscriptionDetails
    \/ CallExtractFields

(***************************************************************************)
(* model.py  extract_multiple_ordinals                                     *)
(*                                                                         *)
(* The call is extract_multiple_ordinals(0, end_index, output_file). One   *)
(* pass of the main loop is described by how far it gets:                  *)
(*   "unloadable"   the card of current_index cannot be loaded (line 111)  *)
(*   "raises"       a browser step before the extraction raises            *)
(*   "extracted"    the record is appended and the write is attempted      *)
(*   "extracted_then_raises"   as before, and a step after the write       *)
(*                  (lines 132-135) raises                                 *)
(* by how the write of lines 129-130 ends ("ok", open() raises, or         *)
(* json.dump raises after open() has truncated the file), and by whether   *)
(* the handler of lines 137-141 itself raises.                             *)
(***************************************************************************)
start_index == 0

\* The output file: whether it was ever opened for writing, and the
\* records it holds.
File(written, content) == [written |-> written, content |-> content]

\* The write of lines 129-130 storing the new record only.
FileAfterWriteLastOnly(records) ==
    File(TRUE, <<records[Len(records)]>>)

\* Lines 129-130: json.dump(all_data, f) into the file opened with "w".
FileAfterWrite(records) ==
    File(TRUE, records)

MultiSteps == {"unloadable", "raises", "extracted", "extracted_then_raises"}

WriteOutcomes == {"ok", "open_raises", "dump_raises"}

\* A modal that shows a name, a price and the details text.
ShownPage ==
    ModalPage(NameText("ok", "inscription", "Inscription #6896", "6896", NoMatch),
              [st |-> "ok", value |-> "0.0059", currency |-> "BTC"],
              FullDetailsText, Link("ok", "bc1qowner"), Link("ok", NoMatch),
              Link("ok", IdName(1)), Container("ok", "abcdef"),
              Container("ok", "abcdef"), "abcdef:0:0", "abcdef:0")

\* The modals the main loop meets.
MultiPages == {ShownPage, RaisingPage}

\* What the last pass did: how the last write attempt of the run ended
\* ("none": no attempt yet), and whether the outer handler (line 146) ran.
MultiLast(write, error) == [write |-> write, error |-> error]

MultiIdle ==
    /\ u_pc = "idle"
    /\ end_index = 0
    /\ u_index = 0
    /\ u_all_data = <<>>
    /\ u_file = File(FALSE, <<>>)
    /\ u_result = <<>>
    /\ u_last = MultiLast("none", FALSE)

\* Lines 64-67.
MultiInit ==
    /\ u_pc = "load"
    /\ end_index \in 0 .. MaxEnd
    /\ u_index = start_index
    /\ u_all_data = <<>>
    /\ u_file = File(FALSE, <<>>)
    /\ u_result = <<>>
    /\ u_last = MultiLast("none", FALSE)

\* Lines 69-94: the page loads and the starting card is clicked.
MultiLoad ==
    /\ u_pc = "load"
    /\ u_pc' = "loop"
    /\ UNCHANGED <<end_index, u_index, u_all_data, u_file, u_result, u_last>>
    /\ UNCHANGED <<scrollVars, scrapeVars, fullVars, extractVars, batchVars, simpleVars,
                   mainVars, listingVars>>

\* Lines 69-94 raise: the outer handler (lines 146-148) returns all_data.
MultiLoadRaises ==
    /\ u_pc = "load"
    /\ u_pc' = "done"
    /\ u_result' = u_all_data
    /\ u_last' = MultiLast(u_last.write, TRUE)
    /\ UNCHANGED <<end_index, u_index, u_all_data, u_file>>
    /\ UNCHANGED <<scrollVars, scrapeVars, fullVars, extractVars, batchVars, simpleVars,
                   mainVars, listingVars>>

\* Lines 84-86: the starting card cannot be reached, [] is returned.
MultiStartUnreachable ==
    /\ u_pc = "load"
    /\ u_pc' = "done"
    /\ u_result' = <<>>
    /\ UNCHANGED <<end_index, u_index, u_all_data, u_file, u_last>>
    /\ UNCHANGED <<scrollVars, scrapeVars, fullVars, extractVars, batchVars, simpleVars,
                   mainVars, listingVars>>

\* Lines 97-141: one pass of the main loop.
MultiIteration ==
    /\ u_pc = "loop"
    /\ u_index <= end_index
    /\ \E step \in MultiSteps, page \in MultiPages, write \in WriteOutcomes,
          handler_raises \in BOOLEAN :
         LET details == extract_ordinal_details_from_modal(page, u_index)
             extracted == step \in {"extracted", "extracted_then_raises"}
             appended == Append(u_all_data, details)
             raised == \/ step = "raises"
                       \/ extracted /\ write # "ok"
                       \/ step = "extracted_then_raises" IN
         /\ u_all_data' = IF extracted THEN appended ELSE u_all_data
         /\ u_file' = IF ~extracted \/ write = "open_raises" THEN u_file
                      ELSE IF write = "dump_raises" THEN File(TRUE, <<>>)
                      ELSE FileAfterWrite(appended)
         /\ u_last' = MultiLast(IF ~extracted THEN u_last.write
                                ELSE IF write = "ok" THEN "ok" ELSE "raises",
                                step # "unloadable" /\ raised /\ handler_raises)
         /\ IF step = "unloadable"
            THEN \* line 113: break, line 144 returns all_data
                 /\ u_pc' = "done"
                 /\ u_result' = u_all_data
                 /\ UNCHANGED u_index
            ELSE IF raised /\ handler_raises
            THEN \* line 139 raises: lines 146-148 return all_data
                 /\ u_pc' = "done"
                 /\ u_result' = u_all_data'
                 /\ UNCHANGED u_index
            ELSE /\ u_index' = u_index + 1
                 /\ UNCHANGED <<u_pc, u_result>>
    /\ UNCHANGED end_index
    /\ UNCHANGED <<scrollVars, scrapeVars, fullVars, extractVars, batchVars, simpleVars,
                   mainVars, listingVars>>

\* Lines 96, 143-144: the loop ends, all_data is returned.
MultiLoopEnd ==
    /\ u_pc = "loop"
    /\ u_index > end_index
    /\ u_pc' = "done"
    /\ u_result' = u_all_data
    /\ UNCHANGED <<end_index, u_index, u_all_data, u_file, u_last>>
    /\ UNCHANGED <<scrollVars, scrapeVars, fullVars, extractVars, batchVars, simpleVars,
                   mainVars, listingVars>>

NextMulti ==
    \/ MultiLoad
    \/ MultiLoadRaises
    \/ MultiStartUnreachable
    \/ MultiIteration
    \/ MultiLoopEnd

(***************************************************************************)
(* Specifications                                                          *)
(***************************************************************************)
LaterIdle == BatchIdle /\ SimpleIdle /\ MainIdle /\ ListingIdle /\ MultiIdle

CoreIdle == ScrollIdle /\ ScrapeIdle /\ FullIdle /\ ExtractIdle

InitScroll  == ScrollInit /\ ScrapeIdle /\ FullIdle /\ ExtractIdle /\ LaterIdle
InitScrape  == ScrollIdle /\ ScrapeInit /\ FullIdle /\ ExtractIdle /\ LaterIdle
InitFull    == ScrollIdle /\ ScrapeIdle /\ FullInit /\ ExtractIdle /\ LaterIdle
InitExtract == ScrollIdle /\ ScrapeIdle /\ FullIdle /\ ExtractInit /\ LaterIdle

SpecScroll  == InitScroll /\ [][NextScroll]_vars
SpecScrape  == InitScrape /\ [][NextScrape]_vars
SpecFull    == InitFull /\ [][NextFull]_vars
SpecExtract == InitExtract /\ [][NextExtract]_vars

InitBatch == CoreIdle /\ BatchInit /\ SimpleIdle /\ MainIdle /\ ListingIdle /\ MultiIdle
SpecBatch == InitBatch /\ [][NextBatch]_vars

InitSimple == CoreIdle /\ BatchIdle /\ SimpleInit /\ MainIdle /\ ListingIdle /\ MultiIdle
SpecSimple == InitSimple /\ [][NextSimple]_vars

InitMain == CoreIdle /\ BatchIdle /\ SimpleIdle /\ MainInit /\ ListingIdle /\ MultiIdle
SpecMain == InitMain /\ [][NextMain]_vars

InitListing == CoreIdle /\ BatchIdle /\ SimpleIdle /\ MainIdle /\ ListingInit /\ MultiIdle
SpecListing == InitListing /\ [][NextListing]_vars

InitMulti ==
    CoreIdle /\ BatchIdle /\ SimpleIdle /\ MainIdle /\ ListingIdle /\ MultiInit
SpecMulti == InitMulti /\ [][NextMulti]_vars

Init == InitScrape
Next == NextScrape
Spec == SpecScrape

(***************************************************************************)
(* Claims                                                                  *)
(***************************************************************************)

\* C1 (SpecScrape): within one scrape_all_ordinals run no two records of
\* all_data share an inscription_id, whatever elements the batches present.
C1_NoDuplicateIds ==
    \A i, j \in 1 .. Len(all_data) :
        i # j => all_data[i]["inscription_id"] # all_data[j]["inscription_id"]

\* A later batch presented an element whose id was already scraped.
C1_Witness ==
    /\ scroll_batch >= 2
    /\ last.kind = "element"
    /\ last.dup
    /\ Len(all_data) >= 1

\* C2 (SpecScrape): an element for which none of the three id strategies
\* yields an id is not clicked, and nothing is appended to all_data or added
\* to the seen set.
C2_NoIdNoRecord ==
    [][(last'.kind = "element" /\ ~last'.has_id)
         => /\ all_data' = all_data
            /\ scraped_inscriptions' = scraped_inscriptions
            /\ last'.click = "none"]_vars

\* An element without an id was processed after a record had been scraped.
C2_Witness ==
    /\ last.kind = "element"
    /\ ~last.has_id
    /\ Len(all_data) >= 1

\* C3 (SpecScroll): scroll_to_load_more runs at most max_scroll_attempts
\* iterations of its loop, whatever heights the browser reports.
C3_TerminatesWithinBound == scroll_iters <= max_scroll_attempts

\* C4 (SpecScrape): every record of all_data has the 12 columns, each with
\* an extracted value or a sentinel string, never None.
C4_AllColumnsFilled ==
    \A i \in 1 .. Len(all_data) :
        /\ DOMAIN all_data[i] = Columns
        /\ \A k \in Columns : all_data[i][k] # None

\* C5 (SpecScrape): when an exception leaves the batch loop, the call
\* returns exactly the records collected so far.
C5_PartialOnEscape ==
    (pc = "done" /\ escaped = "batch") => result = all_data

\* Scrolling failed in a later batch, after a record had been collected.
C5_Witness ==
    /\ pc = "done"
    /\ escaped = "batch"
    /\ scroll_batch >= 2
    /\ Len(result) >= 1

\* C6 (SpecFull): when a step of scrape_with_precision fails after k NFTs
\* were appended to enhanced_data, the call returns those k records.
C6_PartialOnFailure ==
    (f_pc = "done" /\ f_failed = "back") => f_result = enhanced_data

\* An exception was raised while the last step processed an element: by a
\* call on the element, by the click, or by the wait for the modal.
ElementFailed(l) ==
    /\ l.kind = "element"
    /\ l.raised \/ l.click \in {"click_raises", "timeout"}

\* C7 as stated (SpecScrape): an exception raised while processing an
\* element leaves all_data and scraped_inscriptions as they were, and the
\* loop goes on with the next element.
C7_FailureLeavesStateUnchanged ==
    [][ElementFailed(last')
         => /\ all_data' = all_data
            /\ scraped_inscriptions' = scraped_inscriptions
            /\ pc' = "elements"
            /\ idx' = idx + 1]_vars

\* C7 amended (SpecScrape): an exception raised while processing an element
\* never leaves the batch loop and the loop goes on with the next element;
\* all_data and the seen set are unchanged when the element was not clicked,
\* and when the click or the wait for the modal raised, one record with a
\* new id and every detail field None is appended and its id is added.
C7_FailureContinuesLoop ==
    [][ElementFailed(last')
         => /\ pc' = "elements"
            /\ idx' = idx + 1
            /\ escaped' = escaped
            /\ last'.click = "none"
                 => /\ all_data' = all_data
                    /\ scraped_inscriptions' = scraped_inscriptions
            /\ last'.click # "none"
                 => /\ Len(all_data') = Len(all_data) + 1
                    /\ SubSeq(all_data', 1, Len(all_data)) = all_data
                    /\ LET r == all_data'[Len(all_data')] IN
                       /\ r["inscription_id"] \notin scraped_inscriptions
                       /\ scraped_inscriptions' =
                              scraped_inscriptions \cup {r["inscription_id"]}
            /\ last'.click \in {"click_raises", "timeout"}
                 => \A k \in DetailFields :
                       all_data'[Len(all_data')][k] = None]_vars

\* The click on an element raised, and its record is in all_data.
C7_Witness ==
    /\ last.kind = "element"
    /\ last.click = "click_raises"
    /\ pc = "elements"
    /\ Len(all_data) >= 1
    /\ all_data[Len(all_data)]["Sat_Rarity"] = None

\* The inscription_id of the dict extract_basic_info returned.
ReturnedId == x_ret.val["inscription_id"]

\* C8 (SpecExtract): extract_basic_info takes the id of the href when the
\* href yields one, else that of the data attributes when they yield one,
\* else that of the image src, whatever the later strategies would yield.
C8_StrategyOrder ==
    (x_fn = "extract_basic_info" /\ x_pc = "returned" /\ ~x_ret.none)
        => /\ Truthy(HrefId(x_element)) => ReturnedId = HrefId(x_element)
           /\ (~Truthy(HrefId(x_element)) /\ Truthy(DataId(x_element)))
                 => ReturnedId = DataId(x_element)
           /\ (~Truthy(HrefId(x_element)) /\ ~Truthy(DataId(x_element)))
                 => ReturnedId = ImgId(x_element)

\* The href yields one id, the data attribute and the image another one,
\* and the id of the href was returned.
C8_Witness ==
    /\ x_fn = "extract_basic_info"
    /\ x_pc = "returned"
    /\ ~x_ret.none
    /\ Truthy(HrefId(x_element))
    /\ Truthy(DataId(x_element))
    /\ DataId(x_element) # HrefId(x_element)
    /\ Truthy(ImgId(x_element))
    /\ ImgId(x_element) # HrefId(x_element)
    /\ ReturnedId = HrefId(x_element)

\* C9 (SpecExtract): when the image-URL strategy yields a content_type,
\* extract_detailed_info returns that content_type.
C9_ImageContentTypeWins ==
    (/\ x_fn = "extract_detailed_info"
     /\ x_pc = "returned"
     /\ x_outcome = "opened"
     /\ "content_type" \in DOMAIN extract_image_info(x_modal))
        => x_ret["content_type"] = extract_image_info(x_modal)["content_type"]

RECURSIVE FirstLinePrice(_)
\* The price of the first line, in card order, that matches a price pattern.
FirstLinePrice(lines) ==
    IF lines = <<>> THEN "Unknown"
    ELSE IF LinePrice(Head(lines)) # NoMatch THEN LinePrice(Head(lines))
    ELSE FirstLinePrice(Tail(lines))

\* C10 (SpecExtract): the recorded price of a card is that of its first
\* line matching a price pattern.
C10_FirstMatchingLine ==
    (x_fn = "extract_price" /\ x_pc = "returned")
        => x_ret = FirstLinePrice(x_lines)

\* C17 (SpecScrape): all_data never holds more than max_items records, and
\* once it holds max_items no element is clicked, no record is appended and
\* no scroll batch is started.
C17_TargetBound ==
    [][/\ Len(all_data') <= max_items'
       /\ Len(all_data) >= max_items
            => /\ all_data' = all_data
               /\ scroll_batch' = scroll_batch
               /\ last'.click = "none"]_vars

\* The target count was reached while the batch still had an element left
\* and the batch limit was not reached.
C17_Witness ==
    /\ pc = "elements"
    /\ Len(all_data) = max_items
    /\ idx < num_elements
    /\ scroll_batch < max_scroll_batches

RECURSIVE TrailingUnchanged(_)
\* The number of scrolls at the end of the history that left the height
\* unchanged.
TrailingUnchanged(hist) ==
    IF hist = <<>> THEN 0
    ELSE IF hist[Len(hist)]
         THEN 1 + TrailingUnchanged(SubSeq(hist, 1, Len(hist) - 1))
         ELSE 0

\* C18 (SpecScroll): scroll_to_load_more has returned exactly when the last
\* failed_attempts_limit (3) scrolls all left the height unchanged, and the
\* count of failed attempts is the number of unchanged scrolls since the
\* last scroll that changed the height.
C18_StopsAfterThreeUnchanged ==
    /\ scroll_pc = "done" <=> TrailingUnchanged(scroll_hist) = failed_attempts_limit
    /\ scroll_attempts = TrailingUnchanged(scroll_hist)

\* The loop returned after a scroll that changed the height was followed by
\* three that did not, more than three scrolls after two earlier failures.
C18_Witness ==
    /\ scroll_pc = "done"
    /\ scroll_iters > 2 * failed_attempts_limit
    /\ scroll_attempts = failed_attempts_limit

\* extract_owner_info has returned for a modal whose text could be read.
OwnerReturned ==
    /\ x_fn = "extract_owner_info"
    /\ x_pc = "returned"
    /\ x_modal.text_st = "ok"

\* The owner of the returned dict is the text of the first candidate, in
\* pattern order, that satisfies Ok, and there is no owner when none does.
OwnerIsFirst(Ok(_)) ==
    LET cs == x_modal.owner
        hits == {i \in 1 .. Len(cs) : cs[i].text # NoMatch /\ Ok(cs[i])} IN
    IF hits = {} THEN "owner" \notin DOMAIN x_ret
    ELSE /\ "owner" \in DOMAIN x_ret
         /\ \E i \in hits : /\ \A j \in hits : i <= j
                              /\ x_ret["owner"] = cs[i].text

LongOrPrefix(c) == c.len > 10 \/ c.bc1

LongAndShaped(c) == c.len > 10 /\ (c.bc1 \/ c.dots \/ c.len > 20)

\* C16 as stated (SpecExtract): extract_owner_info accepts the first owner
\* candidate that has more than 10 characters or starts with 'bc1', and
\* rejects a candidate meeting neither condition.
C16_LengthOrPrefix == OwnerReturned => OwnerIsFirst(LongOrPrefix)

\* C16 amended (SpecExtract): extract_owner_info accepts the first owner
\* candidate that has more than 10 characters and, in addition, starts with
\* 'bc1', contains '...' or has more than 20 characters; any other candidate
\* is rejected and the next owner pattern is tried.
C16_LengthAndShape == OwnerReturned => OwnerIsFirst(LongAndShaped)

\* The first pattern captured a 15-character text without prefix or
\* ellipsis, which was rejected, and the owner is that of a later pattern.
C16_Witness ==
    /\ OwnerReturned
    /\ x_modal.owner[1].text = "SatoshiNakamoto"
    /\ "owner" \in DOMAIN x_ret
    /\ x_ret["owner"] = "3FZbgi...tktZc5"

\* C20 (SpecBatch): the batch loop of scrape_all_ordinals starts at most
\* max_scroll_batches (8) batches, and a batch that found no elements or
\* left all_data as long as it was is the last one: the loop has ended and
\* no second such batch exists.
C20_BatchBound ==
    /\ b_scroll_batch <= max_scroll_batches
    /\ b_empty <= 1
    /\ b_empty = 1 => b_pc = "done"

\* Eight batches each added a record and the loop ended by the batch limit
\* with the target count not reached.
C20_Witness ==
    /\ b_pc = "done"
    /\ b_scroll_batch = max_scroll_batches
    /\ b_empty = 0
    /\ b_len < b_max_items

\* C12 (SpecSimple): a card whose inscription number, read from the card or
\* from its detail view, is already in processed_numbers adds no record, and
\* no two records of ordinal_data or of the returned list share an
\* inscription_number other than 'Unknown'.
C12_NoDuplicateNumbers ==
    [][/\ s_last'.number \in processed_numbers => ordinal_data' = ordinal_data
       /\ \A data \in {ordinal_data', s_result'} :
            \A m, n \in 1 .. Len(data) :
               (m # n /\ data[m].inscription_number # "Unknown")
                  => data[m].inscription_number # data[n].inscription_number]_vars

\* A card without a number on the card was opened, its detail view showed a
\* number already processed, and the card was skipped.
C12_Witness ==
    /\ s_last.path = "skip_detail"
    /\ s_last.number \in processed_numbers
    /\ \E n \in 1 .. Len(ordinal_data) :
          ordinal_data[n].inscription_number = s_last.number

\* C19 (SpecSimple): every iteration of the card loop breaks or advances
\* the position i by one, at most 19 iterations run, and at most max_cards
\* records are collected and returned.
C19_LoopTerminates ==
    [][/\ s_iters' # s_iters => (s_pc' = "done" \/ s_i' = s_i + 1)
       /\ s_iters' < position_limit
       /\ Len(ordinal_data') <= max_cards
       /\ Len(s_result') <= max_cards]_vars

\* The loop ran 19 iterations, among them duplicate skips and exceptions,
\* and ended by the position bound with fewer than max_cards records.
C19_Witness ==
    /\ s_pc = "done"
    /\ s_iters = position_limit - 1
    /\ s_last.path = "none"
    /\ Len(s_result) < max_cards
    /\ Len(s_result) > 0

\* An inscription_id cell that holds a placeholder of inscription_scraping.py
\* ('Unknown', 'Error') or is empty or NaN.
PlaceholderCell(cell) ==
    \/ cell \in {"Unknown", "Error"}
    \/ ReadCsv(cell) = NaN
    \/ Strip(cell) = ""

\* C13 (SpecMain): for a row whose inscription_id is 'Unknown', 'Error',
\* empty or NaN, main makes no fetch and appends no record to results.
C13_PlaceholderRowsSkipped ==
    [][(m_last'.kind = "row" /\ PlaceholderCell(m_last'.cell))
         => /\ ~m_last'.fetched
            /\ m_fetched' = m_fetched
            /\ results' = results]_vars

\* C14 (SpecListing): a card from which neither image-URL pattern yields an
\* inscription id has no record in the list scrape_complete_data returns
\* and no row in the CSV file save_to_single_csv writes.
C14_NoIdDiscarded ==
    \A i \in 1 .. Len(l_cards) :
        (~l_cards[i].throws /\ ListingId(l_cards[i]) = NoMatch)
            => /\ \A n \in 1 .. Len(l_nft_data) : l_nft_data[n].index # i - 1
               /\ \A n \in 1 .. Len(l_written) : l_written[n].index # i - 1

\* The card text has the line '0.0059 BTC'.
HasPriceLine == \E i \in 1 .. Len(x_lines) : x_lines[i].text = "0.0059 BTC"

\* C11 (SpecExtract): for a card whose text contains the line '0.0059 BTC',
\* Magiceden.py stores price_btc 0.0059, and the listing extractors of
\* inscription_scraping.py and magiceden_full_scraper.py store the price
\* '0.0059 BTC'.
C11_PriceLineExtracted ==
    (x_pc = "returned" /\ HasPriceLine)
        => /\ x_fn = "extract_basic_info_price"
                => /\ "price_btc" \in DOMAIN x_ret
                   /\ x_ret["price_btc"] = "0.0059"
           /\ x_fn = "extract_complete_data_price" => x_ret = "0.0059 BTC"
           /\ x_fn = "extract_price" => x_ret = "0.0059 BTC"

\* The 17 keys of the record of model.py.
ModalKeys ==
    {"name", "inscription_number", "price", "owner", "content_type", "created",
     "location", "inscription_id", "rarity", "sat_number", "sat_name",
     "genesis_transaction", "output", "image_url", "full_details_text",
     "scraped_time", "ordinal_index"}

\* C15 (SpecExtract): extract_ordinal_details_from_modal returns, for every
\* page and whatever driver call raises, a record that has the 17 keys and
\* whose text fields hold an extracted non-empty value or 'Unknown', never
\* the empty string.
C15_AllKeysFilled ==
    (x_fn = "extract_ordinal_details_from_modal" /\ x_pc = "returned")
        => /\ DOMAIN x_ret = ModalKeys
           /\ \A k \in ModalKeys \ {"ordinal_index"} : x_ret[k] # ""

\* C21 (SpecScrape): extract_detailed_info is invoked only for an element
\* whose id is not yet in scraped_inscriptions, and each invocation appends
\* one record with that id and adds the id to the seen set, which never
\* loses an id during the run; so no id is clicked twice.
C21_ClickOncePerId ==
    [][/\ scraped_inscriptions \subseteq scraped_inscriptions'
       /\ (last'.kind = "element" /\ last'.dup) => last'.click = "none"
       /\ (last'.kind = "element" /\ last'.click # "none")
            => /\ Len(all_data') = Len(all_data) + 1
               /\ SubSeq(all_data', 1, Len(all_data)) = all_data
               /\ LET id == all_data'[Len(all_data')]["inscription_id"] IN
                  /\ id \notin scraped_inscriptions
                  /\ scraped_inscriptions' = scraped_inscriptions \cup {id}]_vars

\* The modal of a second id was opened in a later batch, after an element
\* with a seen id had been presented in the batch before.
C21_Witness ==
    /\ scroll_batch >= 2
    /\ last.kind = "element"
    /\ last.click = "opened"
    /\ Len(all_data) = 2
    /\ Cardinality(scraped_inscriptions) = 2

\* The values Sat_Rarity may take.
AllowedRarities == {"common", "uncommon", "rare", "epic", "legendary", "mythic", "N/A"}

\* C22 (SpecExtract): extract_rarity_info returns a dict with the one key
\* Sat_Rarity, whose value is an allowed rarity, whether a pattern matched,
\* none matched, or the modal lookup raised.
C22_RarityAllowed ==
    (x_fn = "extract_rarity_info" /\ x_pc = "returned")
        => /\ DOMAIN x_ret = {"Sat_Rarity"}
           /\ x_ret["Sat_Rarity"] \in AllowedRarities

\* The first pattern captured a text that names no rarity, and a later
\* pattern a rarity keyword: the result is the sentinel.
C22_Witness ==
    /\ x_fn = "extract_rarity_info"
    /\ x_pc = "returned"
    /\ x_modal.text_st = "ok"
    /\ x_modal.rarity[1] = "unique"
    /\ x_modal.rarity[2] = "rare"
    /\ x_ret["Sat_Rarity"] = "N/A"

\* C23 (SpecExtract): when the first matching rarity pattern captures a text
\* equal to one of the keywords common, uncommon, rare, epic, legendary,
\* mythic, Sat_Rarity is that keyword.
C23_KeywordMapsToItself ==
    (/\ x_fn = "extract_rarity_info"
     /\ x_pc = "returned"
     /\ x_modal.text_st = "ok"
     /\ FirstMatched(x_modal.rarity) \in AllowedRarities \ {"N/A"})
        => x_ret["Sat_Rarity"] = FirstMatched(x_modal.rarity)

\* fetch_inscription_details has returned.
FetchReturned == x_fn = "fetch_inscription_details" /\ x_pc = "returned"

\* The positions of the APIs that answered with status 200.
Answered200 == {i \in 1 .. Len(x_responses) : x_responses[i].st \in {"json", "text"}}

\* What line 25 or line 27 returns for an answer with status 200.
BodyOf(r) == IF r.st = "json" THEN r.json ELSE Entry("raw_html", r.text)

\* C24 (SpecExtract): fetch_inscription_details calls hiro, ordapi,
\* ordinalsbot, ordiscan in this order and stops at the first that answers
\* with status 200, whose body (decoded, or as raw text when it is not JSON)
\* it returns; it returns None exactly when none answered 200, having
\* called all four.
C24_FirstAnswerInOrder ==
    FetchReturned
        => /\ x_ret.none <=> Answered200 = {}
           /\ Answered200 = {} => x_trace = apis
           /\ \A i \in Answered200 :
                (\A j \in Answered200 : i <= j)
                    => /\ x_trace = SubSeq(apis, 1, i)
                       /\ x_ret.val = BodyOf(x_responses[i])

\* The first two APIs failed, the third answered 200 and the fourth, which
\* would have answered too, was not called.
C24_Witness ==
    /\ FetchReturned
    /\ x_responses[1].st = "status"
    /\ x_responses[2].st = "exception"
    /\ x_responses[3].st = "json"
    /\ x_responses[4].st = "json"
    /\ x_trace = <<"hiro", "ordapi", "ordinalsbot">>
    /\ ~x_ret.none

\* C25 as stated (SpecExtract): after every API that was called and did not
\* deliver a decoded JSON body (request error, status other than 200, or a
\* 200 answer that is not JSON) the next API of the list is called.
C25_FallsBackOnUnusableJson ==
    FetchReturned
        => \A i \in 1 .. Len(x_trace) :
              (x_responses[i].st # "json" /\ i < Len(apis)) => Len(x_trace) > i

\* C25 amended (SpecExtract): after an API that raised a request error or
\* answered with a status other than 200 the next API of the list is called;
\* a 200 answer that is not JSON ends the fetch, which returns the dict
\* {"raw_html": text} without calling a later API.
C25_FallsBackOnErrorOrStatus ==
    FetchReturned
        => \A i \in 1 .. Len(x_trace) :
              /\ (x_responses[i].st \in {"exception", "status"} /\ i < Len(apis))
                    => Len(x_trace) > i
              /\ x_responses[i].st = "text"
                    => /\ Len(x_trace) = i
                       /\ x_ret = Return(Entry("raw_html", x_responses[i].text))

\* The first API answered 200 with a body that is not JSON, the second
\* would have delivered JSON, and the raw text was returned.
C25_Witness ==
    /\ FetchReturned
    /\ x_responses[1].st = "text"
    /\ x_responses[2].st = "json"
    /\ x_trace = <<"hiro">>
    /\ "raw_html" \in DOMAIN x_ret.val

\* extract_fields has returned.
FieldsReturned == x_fn = "extract_fields" /\ x_pc = "returned"

\* The 16 keys of a record of extract_fields.
FieldKeys ==
    {"name", "inscription_id", "price", "owner", "image_url", "previous", "root",
     "mime_type", "content_type", "inscription_number", "Sat_Rarity", "genesis_tx",
     "location", "value", "timestamp", "fetched_at"}

\* C26 (SpecExtract): without API data extract_fields returns a record with
\* the 16 keys of the data case, in which name, inscription_id and price are
\* the arguments and each of the twelve detail fields owner ... timestamp
\* is exactly 'N/A'.
C26_NoDataAllSentinel ==
    (FieldsReturned /\ x_args.data = EmptyDict)
        => /\ DOMAIN x_ret = FieldKeys
           /\ DOMAIN x_ret = DOMAIN extract_fields(JsonBody, "", "", "")
           /\ x_ret["name"] = x_args.name
           /\ x_ret["inscription_id"] = x_args.inscription_id
           /\ x_ret["price"] = x_args.price
           /\ \A k \in FieldKeys \ {"name", "inscription_id", "price", "fetched_at"} :
                x_ret[k] = "N/A"

\* The key of the API data extract_fields looks up first for a field.
FirstKey ==
    [name |-> "title", price |-> "price", owner |-> "owner", image_url |-> "image",
     previous |-> "prev", root |-> "root", mime_type |-> "mime_type",
     content_type |-> "content_type", inscription_number |-> "inscription_number",
     Sat_Rarity |-> "sat_rarity", genesis_tx |-> "genesis_tx",
     location |-> "location", value |-> "value", timestamp |-> "timestamp"]

\* C27 (SpecExtract): for each field, when the API data carries a value (a
\* non-empty text or a number, 0 included) under the first key listed for
\* the field, the record of extract_fields carries that value.
C27_FirstKeyValueKept ==
    (FieldsReturned /\ x_args.data # EmptyDict)
        => \A f \in DOMAIN FirstKey :
              (/\ FirstKey[f] \in DOMAIN x_args.data
               /\ x_args.data[FirstKey[f]] \notin {None, ""})
                  => x_ret[f] = x_args.data[FirstKey[f]]

\* C28 (SpecExtract): when the Location row of the modal yields neither a
\* copied full location nor a transaction link and the details text matches
\* the location pattern, extract_ordinal_details_from_modal stores the
\* matched text as location.
C28_LocationFallsBackToPattern ==
    (/\ x_fn = "extract_ordinal_details_from_modal"
     /\ x_pc = "returned"
     /\ x_page.location.st = "ok"
     /\ ~Truthy(x_page.clipboard)
     /\ x_page.location.hash = NoMatch
     /\ x_page.text.location # NoMatch)
        => x_ret.location = x_page.text.location

\* extract_detailed_info has returned.
DetailedReturned == x_fn = "extract_detailed_info" /\ x_pc = "returned"

\* C30 as stated (SpecExtract): extract_detailed_info calls close_modal
\* exactly once before it returns, whether the modal opened, the wait timed
\* out or the click raised, and no modal is open when it returns.
C30_ClosedOnceAndNotOpen ==
    DetailedReturned => (x_trace = <<"close_modal">> /\ ~x_open)

\* C30 amended (SpecExtract): extract_detailed_info calls close_modal
\* exactly once on each of its three paths; a modal is open afterwards only
\* when the modal had opened and close_modal could not close it.
C30_ClosedOnce ==
    DetailedReturned
        => /\ x_trace = <<"close_modal">>
           /\ x_open => x_outcome = "opened"

\* The modal opened, close_modal was called once and failed, and the modal
\* is open when extract_detailed_info has returned.
C30_Witness ==
    /\ DetailedReturned
    /\ x_outcome = "opened"
    /\ x_trace = <<"close_modal">>
    /\ x_open

\* C29 as stated (SpecMulti): once the output file was written it holds
\* exactly the records of all_data, and the list returned by the outer
\* handler equals the content of the file.
C29_FileHoldsAllData ==
    /\ u_file.written => u_file.content = u_all_data
    /\ (u_pc = "done" /\ u_last.error /\ u_file.written)
            => u_result = u_file.content

\* C29 amended (SpecMulti): each write stores the whole of all_data, so
\* after a write that succeeded, and until the next record is appended, the
\* file holds exactly the records of all_data; a write that raises is
\* caught by the handler of the pass and leaves the file without the new
\* record. The call returns all_data, which equals the content of the file
\* when the last write attempt succeeded.
C29_FileHoldsAllDataAfterWrite ==
    /\ u_last.write = "ok" => u_file = File(TRUE, u_all_data)
    /\ u_last.write = "none" => (~u_file.written /\ u_all_data = <<>>)
    /\ Len(u_file.content) <= Len(u_all_data)
    /\ u_file.content = SubSeq(u_all_data, 1, Len(u_file.content))
    /\ u_pc = "done" => u_result = u_all_data
    /\ (u_pc = "done" /\ u_last.error /\ u_last.write = "ok")
            => u_result = u_file.content

\* The outer handler returned after two records were written, the second
\* write rewriting the file with both.
C29_Witness ==
    /\ u_pc = "done"
    /\ u_last.error
    /\ u_last.write = "ok"
    /\ Len(u_result) = 2
    /\ u_file.content = u_result

====
